---- MODULE Spec2Model ----
(***************************************************************************)
(* Model of the Waveshare 1.8" LCD driver for micro:bit: the serial-RAM    *)
(* frame-buffer driver (namespace SRAM), the ST7735R protocol layer and    *)
(* transfer pipeline (namespace LCD) and the dirty-region tracker          *)
(* (namespace Graphics), together with the two chips they talk to.         *)
(*                                                                         *)
(* The driver state is one variable per module-level `let` of the source.  *)
(* The chips are modelled by what the driver can make them do: the memory  *)
(* chip has a mode register and a byte array, the display controller has   *)
(* its address-window registers, its last command, a write pointer and its *)
(* pixel memory.  A pixel is kept as one 16-bit number hi*256+lo; the two  *)
(* memories are kept sparsely (a background value and the pixels that      *)
(* differ from it) so that the real 160x128 geometry can be used.          *)
(***************************************************************************)
EXTENDS Integers, Sequences, FiniteSets, TLC

(***************************************************************************)
(* Program constants                                                       *)
(***************************************************************************)
LCD_WIDTH == 160
LCD_HEIGHT == 128
LCD_X_OFFSET == 1
LCD_Y_OFFSET == 2
SRAM_BYTE == 0
SRAM_PAGE == 128
SRAM_STREAM == 64
CASET == 42
RASET == 43
RAMWR == 44
DISPON == 41
DISPOFF == 40
SLPOUT == 17
WHITE == 65535
MAGENTA == 63519
CHUNK_SIZE == 640
CHUNK_COUNT == 64
WIDE_MARGIN == 20
AREA_LIMIT == 5000
BL_MAX == 1023
PAGE_SIZE == 32

NumPixels == LCD_WIDTH * LCD_HEIGHT
FbBytes == NumPixels * 2
Modes == {SRAM_BYTE, SRAM_PAGE, SRAM_STREAM}
FullWindow == <<0, 0, LCD_WIDTH - 1, LCD_HEIGHT - 1>>
NoWindow == <<-1, -1, -1, -1>>

(***************************************************************************)
(* Bounds of the model                                                     *)
(***************************************************************************)
MaxOps == 3

(***************************************************************************)
(* Arithmetic helpers (Math.min, Math.max, Math.clamp, >> 8, & 0xFF)       *)
(***************************************************************************)
Min(a, b) == IF a < b THEN a ELSE b
Max(a, b) == IF a > b THEN a ELSE b
Clamp(lo, hi, v) == IF v < lo THEN lo ELSE IF v > hi THEN hi ELSE v
HighByte(color) == (color \div 256) % 256
LowByte(color) == color % 256
\* the two address bytes the driver puts on the bus reconstruct addr mod 2^16
BusAddr(addr) == ((addr \div 256) % 256) * 256 + (addr % 256)

(***************************************************************************)
(* Sparse memories: [bg |-> value, ov |-> function from pixel index to a   *)
(* value different from bg].  Pixel index p = y * LCD_WIDTH + x.           *)
(***************************************************************************)
Uniform(v) == [bg |-> v, ov |-> <<>>]
Get(m, p) == IF p \in DOMAIN m.ov THEN m.ov[p] ELSE m.bg
\* m with the pixels of set ps replaced by val(p); bg kept
PutAll(m, ps, val(_)) ==
  LET NewVal(p) == IF p \in ps THEN val(p) ELSE m.ov[p]
      cand == ps \cup DOMAIN m.ov
      keep == {p \in cand : NewVal(p) # m.bg}
      ov == [p \in keep |-> NewVal(p)]
  \* the comparison makes TLC enumerate the function here, once
  IN  IF ov = ov THEN [bg |-> m.bg, ov |-> ov] ELSE m
\* sequencing of two statements: F applied to the finished state S
Then(S, F(_)) == CHOOSE R \in {F(T) : T \in {S}} : TRUE
PixelIndex(x, y) == y * LCD_WIDTH + x
PixX(p) == p % LCD_WIDTH
PixY(p) == p \div LCD_WIDTH
RectPixels(x1, y1, x2, y2) ==
  {PixelIndex(x, y) : x \in x1..x2, y \in y1..y2}

(***************************************************************************)
(* State.  Driver state (one variable per module-level `let`):             *)
(*   LCD:      lcdInitialized, displayOn, backlightLevel, windowX1..Y2     *)
(*             backlightLevel is a number that need not be whole: it is    *)
(*             held as its whole part backlightLevel (the floor) and its   *)
(*             hundredths backlightFrac, 0..99                             *)
(*   SRAM:     currentMode, sramInitialized                                *)
(*   Graphics: dirtyX1..dirtyY2, isDirty                                   *)
(* Hardware state:                                                         *)
(*   chipMode   the memory chip's mode register                            *)
(*   byteExtra  what the memory chip does with a second data byte in Byte  *)
(*              mode ("dropped" or "next"): the data sheet limits a Byte   *)
(*              mode transfer to one byte and leaves the rest unspecified  *)
(*   fb         frame buffer: memory-chip bytes 0..40959, as pixels        *)
(*   oob        address ranges written outside the frame buffer            *)
(*   ctl        display controller registers: lastCmd, args (parameter     *)
(*              bytes since lastCmd), xs, xe, ys, ye (window), ptr (pixels *)
(*              written since memory-write, modulo the window), on         *)
(*   gram       display pixel memory of the visible 160x128 panel area     *)
(*   blPin      PWM value driven on the backlight pin                      *)
(*   sramCs, lcdCs   level of the two chip-select pins: "undriven" until   *)
(*              the driver first writes the pin, then "low" (chip          *)
(*              selected) or "high"                                        *)
(*   clash      a chip was selected, or moved bytes, while the other       *)
(*              chip-select was low                                        *)
(* History:                                                                *)
(*   trace      bus transactions and driver calls of the last operation    *)
(*   lastOp     the last operation and its arguments                       *)
(*   prevOp     the operation before it                                    *)
(*   pre        the state before the last operation, with the trace of the *)
(*              operation that led to it                                    *)
(*   pre2       the state before the operation before the last             *)
(*   steps      number of operations run                                   *)
(***************************************************************************)
VARIABLES lcdInitialized, displayOn, backlightLevel, backlightFrac,
          windowX1, windowY1, windowX2, windowY2,
          currentMode, sramInitialized,
          dirtyX1, dirtyY1, dirtyX2, dirtyY2, isDirty,
          chipMode, byteExtra, fb, oob, ctl, gram, blPin,
          sramCs, lcdCs, clash, streamReopened,
          trace, lastOp, prevOp, pre, pre2, steps, pc

driverVars == <<lcdInitialized, displayOn, backlightLevel, backlightFrac,
                windowX1, windowY1, windowX2, windowY2,
                currentMode, sramInitialized,
                dirtyX1, dirtyY1, dirtyX2, dirtyY2, isDirty>>
hwVars == <<chipMode, byteExtra, fb, oob, ctl, gram, blPin, sramCs, lcdCs, clash,
            streamReopened>>
histVars == <<trace, lastOp, prevOp, pre, pre2>>
vars == <<driverVars, hwVars, histVars, steps, pc>>

\* the current state as one record, so that a handler is a function on it
Cur == [lcdInitialized |-> lcdInitialized, displayOn |-> displayOn,
        backlightLevel |-> backlightLevel, backlightFrac |-> backlightFrac,
        windowX1 |-> windowX1, windowY1 |-> windowY1,
        windowX2 |-> windowX2, windowY2 |-> windowY2,
        currentMode |-> currentMode, sramInitialized |-> sramInitialized,
        dirtyX1 |-> dirtyX1, dirtyY1 |-> dirtyY1,
        dirtyX2 |-> dirtyX2, dirtyY2 |-> dirtyY2, isDirty |-> isDirty,
        chipMode |-> chipMode, byteExtra |-> byteExtra, fb |-> fb,
        oob |-> oob, ctl |-> ctl, gram |-> gram, blPin |-> blPin,
        sramCs |-> sramCs, lcdCs |-> lcdCs, clash |-> clash,
        streamReopened |-> streamReopened,
        trace |-> <<>>]

Window(S) == <<S.windowX1, S.windowY1, S.windowX2, S.windowY2>>
DirtyBox(S) == <<S.dirtyX1, S.dirtyY1, S.dirtyX2, S.dirtyY2>>

(***************************************************************************)
(* Trace events: one per chip-select-bounded bus transaction, per pin or   *)
(* delay step of the reset, and per call of a transfer routine.            *)
(***************************************************************************)
Ev(dev, op, a, n, d) == [dev |-> dev, op |-> op, a |-> a, n |-> n, d |-> d]
EvLcdCmd(cmd) == Ev("lcd", "cmd", cmd, 1, <<>>)
EvLcdData(bytes) == Ev("lcd", "data", 0, Len(bytes), bytes)
\* n pixel bytes pushed to the display; a is the memory address they were
\* read from (-1: a constant colour d, not read from memory)
EvLcdPix(a, n, d) == Ev("lcd", "pix", a, n, d)
EvWrsr(mode) == Ev("sram", "wrsr", mode, 1, <<>>)
EvSramWrite(a, n, d) == Ev("sram", "write", a, n, d)
EvSramRead(a, n) == Ev("sram", "read", a, n, <<>>)
EvPin(pin, level) == Ev("pin", pin, level, 0, <<>>)
EvWait(micros) == Ev("wait", "us", micros, 0, <<>>)
EvCall(name, args) == Ev("call", name, 0, 0, args)
IsBus(e) == e.dev \in {"lcd", "sram"}

\* digitalWritePin(<chip-select of dev>, 0) and (.., 1); streamReopened
\* records a memory transaction opened while the previous one was still open
Select(S, dev) ==
  IF dev = "lcd"
  THEN [S EXCEPT !.lcdCs = "low", !.clash = @ \/ S.sramCs = "low"]
  ELSE [S EXCEPT !.sramCs = "low", !.clash = @ \/ S.lcdCs = "low",
                 !.streamReopened = @ \/ S.sramCs = "low"]
\* a transaction that ends without writing 1 to the chip-select pin
DeselectMissing(S, dev) == S

Deselect(S, dev) ==
  IF dev = "lcd" THEN [S EXCEPT !.lcdCs = "high"] ELSE [S EXCEPT !.sramCs = "high"]

\* the bytes of a transaction move while its chip is selected
Transfer(S, e) ==
  [S EXCEPT !.trace = Append(@, e),
            !.clash = @ \/ (IF e.dev = "lcd" THEN S.sramCs ELSE S.lcdCs) = "low"]

\* one event of an operation: a bus transaction selects its chip, moves
\* its bytes and deselects the chip; a write of 1 to a chip-select pin
\* deselects; anything else is only recorded
Emit(S, e) ==
  IF IsBus(e) THEN Deselect(Transfer(Select(S, e.dev), e), e.dev)
  ELSE IF e.dev = "pin" /\ e.op = "LCD_CS" THEN Deselect([S EXCEPT !.trace = Append(@, e)], "lcd")
  ELSE IF e.dev = "pin" /\ e.op = "SRAM_CS" THEN Deselect([S EXCEPT !.trace = Append(@, e)], "sram")
  ELSE [S EXCEPT !.trace = Append(@, e)]
BusCount(t) == Cardinality({i \in 1..Len(t) : IsBus(t[i])})
CountOp(t, dev, op) ==
  Cardinality({i \in 1..Len(t) : t[i].dev = dev /\ t[i].op = op})
CountCmd(t, cmd) ==
  Cardinality({i \in 1..Len(t) : t[i].dev = "lcd" /\ t[i].op = "cmd" /\ t[i].a = cmd})

(***************************************************************************)
(* The memory chip (23LC1024)                                              *)
(***************************************************************************)
\* memory address that takes the i-th data byte (0-based) of a transaction
\* that latched address a; -1 when the chip stores nothing
DataAddr(mode, extra, a, i) ==
  IF mode = SRAM_STREAM THEN a + i
  ELSE IF mode = SRAM_PAGE
       THEN (a \div PAGE_SIZE) * PAGE_SIZE + ((a + i) % PAGE_SIZE)
  ELSE IF i = 0 THEN a
  ELSE IF extra = "next" THEN a + i ELSE -1

\* the chip stores byte b at memory address addr
StoreByte(S, addr, b) ==
  IF addr < 0 THEN S
  ELSE IF addr >= FbBytes THEN [S EXCEPT !.oob = @ \cup {<<addr, addr>>}]
  ELSE LET p == addr \div 2
           old == Get(S.fb, p)
           new == IF addr % 2 = 0 THEN b * 256 + (old % 256)
                  ELSE (old \div 256) * 256 + b
           Val(q) == new
       IN  [S EXCEPT !.fb = PutAll(@, {p}, Val)]

\* the chip stores n pixels of colour c sent as one write transaction at
\* the even address a (2n data bytes, high byte first)
StorePixels(S, a, n, c) ==
  IF n <= 0 THEN S
  ELSE IF S.chipMode = SRAM_STREAM
          \/ (S.chipMode = SRAM_BYTE /\ S.byteExtra = "next")
  THEN LET first == a \div 2
           last == first + n - 1
           Val(q) == c
           inFb == first..Min(last, NumPixels - 1)
           S1 == IF first = 0 /\ last >= NumPixels - 1
                 THEN [S EXCEPT !.fb = Uniform(c)]
                 ELSE [S EXCEPT !.fb = PutAll(@, inFb, Val)]
       IN  IF last >= NumPixels
           THEN [S1 EXCEPT !.oob = @ \cup {<<Max(first, NumPixels) * 2, last * 2 + 1>>}]
           ELSE S1
  ELSE IF S.chipMode = SRAM_PAGE
  THEN LET base == (a \div PAGE_SIZE) * PAGE_SIZE
           ps == {(base + ((a + 2 * k) % PAGE_SIZE)) \div 2 :
                    k \in 0..(Min(n, PAGE_SIZE \div 2) - 1)}
           Val(q) == c
       IN  IF base >= FbBytes
           THEN [S EXCEPT !.oob = @ \cup {<<base, base + PAGE_SIZE - 1>>}]
           ELSE [S EXCEPT !.fb = PutAll(@, ps, Val)]
  ELSE StoreByte(S, a, HighByte(c))

(***************************************************************************)
(* namespace SRAM                                                          *)
(***************************************************************************)
\* setMode that updates the cached mode without writing the mode register
SetModeUnsent(S, mode) == [S EXCEPT !.currentMode = mode]

SetMode(S, mode) ==
  IF S.currentMode = mode THEN S
  ELSE [Emit(S, EvWrsr(mode)) EXCEPT !.chipMode = mode, !.currentMode = mode]

SramInit(S) ==
  [SetMode(Emit(S, EvPin("SRAM_CS", 1)), SRAM_BYTE) EXCEPT !.sramInitialized = TRUE]

\* the pixel address of a buffer with four bytes per pixel
GetPixelAddrWide(x, y) == (y * LCD_WIDTH + x) * 4

GetPixelAddr(x, y) == (y * LCD_WIDTH + x) * 2

WriteColor(S, addr, color) ==
  LET S1 == SetMode(S, SRAM_BYTE)
      a == BusAddr(addr)
      S2 == Emit(S1, EvSramWrite(a, 2, <<HighByte(color), LowByte(color)>>))
      S3 == StoreByte(S2, DataAddr(S2.chipMode, S2.byteExtra, a, 0), HighByte(color))
  IN  StoreByte(S3, DataAddr(S3.chipMode, S3.byteExtra, a, 1), LowByte(color))

WriteByte(S, addr, data) ==
  LET S1 == SetMode(S, SRAM_BYTE)
      a == BusAddr(addr)
      S2 == Emit(S1, EvSramWrite(a, 1, <<data % 256>>))
  IN  StoreByte(S2, DataAddr(S2.chipMode, S2.byteExtra, a, 0), data % 256)

\* readByte(addr): the state it leaves; the byte it returns is the one the
\* chip holds at the latched address
ReadByte(S, addr) == Emit(SetMode(S, SRAM_BYTE), EvSramRead(BusAddr(addr), 1))

\* a stream that is written and never closed: no endStream()
StreamFillOpen(S, addr, n, color) ==
  LET S1 == SetMode(S, SRAM_STREAM)
      a == BusAddr(addr)
      c == HighByte(color) * 256 + LowByte(color)
      S2 == Transfer(Select(S1, "sram"),
                     EvSramWrite(a, 2 * Max(n, 0), <<HighByte(color), LowByte(color)>>))
  IN  StorePixels(S2, a, n, c)

\* beginStreamWrite(addr); n times spiWrite(highByte), spiWrite(lowByte); endStream()
StreamFill(S, addr, n, color) ==
  LET S1 == SetMode(S, SRAM_STREAM)
      a == BusAddr(addr)
      c == HighByte(color) * 256 + LowByte(color)
      S2 == Emit(S1, EvSramWrite(a, 2 * Max(n, 0), <<HighByte(color), LowByte(color)>>))
  IN  StorePixels(S2, a, n, c)

\* fillColor whose loop stops one pixel early
FillColorShort(S, color) == StreamFill(S, 0, LCD_WIDTH * LCD_HEIGHT - 1, color)

FillColor(S, color) == StreamFill(S, 0, LCD_WIDTH * LCD_HEIGHT, color)

RECURSIVE FillRectRows(_, _, _, _, _, _, _)
FillRectRows(S, x, y, w, h, color, row) ==
  IF row >= h THEN S
  ELSE Then(StreamFill(S, ((y + row) * LCD_WIDTH + x) * 2, w, color),
            LAMBDA T : FillRectRows(T, x, y, w, h, color, row + 1))

\* fillRect as one stream of w * h pixels from the address of its first pixel
SramFillRectOneStream(S, x, y, w, h, color) ==
  StreamFill(S, (y * LCD_WIDTH + x) * 2, w * h, color)

SramFillRect(S, x, y, w, h, color) == FillRectRows(S, x, y, w, h, color, 0)

\* writeHLine that takes the pixel index for the byte address
WriteHLinePixelIndex(S, x, y, length, color) ==
  StreamFill(S, y * LCD_WIDTH + x, length, color)

WriteHLine(S, x, y, length, color) ==
  StreamFill(S, (y * LCD_WIDTH + x) * 2, length, color)

(***************************************************************************)
(* The display controller (ST7735R)                                        *)
(***************************************************************************)
\* register state after a hardware reset: no command received, display
\* off, default address window
CtlReset ==
  [lastCmd |-> 0, args |-> <<>>, xs |-> 0, xe |-> 127, ys |-> 0, ye |-> 159,
   ptr |-> 0, on |-> FALSE]

\* a command byte: it ends the parameters or pixel data of the previous
\* command; memory-write puts the write pointer at the start of the window
CtlCommand(c, cmd) ==
  [c EXCEPT !.lastCmd = cmd, !.args = <<>>,
            !.ptr = IF cmd = RAMWR THEN 0 ELSE @,
            !.on = IF cmd = DISPON THEN TRUE
                   ELSE IF cmd = DISPOFF THEN FALSE ELSE @]

\* parameter bytes: the first four after column-address-set / row-address-set
\* are the 16-bit start and end of the window
CtlParams(c, bytes) ==
  LET all == c.args \o bytes
      got == Len(c.args) < 4 /\ Len(all) >= 4
      lo == all[1] * 256 + all[2]
      hi == all[3] * 256 + all[4]
  IN  [c EXCEPT !.args = all,
                !.xs = IF got /\ c.lastCmd = CASET THEN lo ELSE @,
                !.xe = IF got /\ c.lastCmd = CASET THEN hi ELSE @,
                !.ys = IF got /\ c.lastCmd = RASET THEN lo ELSE @,
                !.ye = IF got /\ c.lastCmd = RASET THEN hi ELSE @]

\* the controller's window in screen coordinates
CtlWindow(c) ==
  <<c.xs - LCD_X_OFFSET, c.ys - LCD_Y_OFFSET, c.xe - LCD_X_OFFSET, c.ye - LCD_Y_OFFSET>>
WinW(c) == c.xe - c.xs + 1
WinH(c) == c.ye - c.ys + 1
WinSize(c) == IF WinW(c) <= 0 \/ WinH(c) <= 0 THEN 0 ELSE WinW(c) * WinH(c)
OnPanel(x, y) == x \in 0..(LCD_WIDTH - 1) /\ y \in 0..(LCD_HEIGHT - 1)

\* The controller takes N pixels as data.  Outside memory-write they are
\* not pixel data and are dropped.  Otherwise pixel i goes to window
\* position (ptr + i) mod size, row-major; SrcVal(i) is the value of pixel
\* i, which is srcBg for every i outside srcOv.
CtlPixels(S, N, SrcVal(_), srcBg, srcOv) ==
  LET c == S.ctl
      size == WinSize(c)
      w == WinW(c)
      x1 == c.xs - LCD_X_OFFSET
      y1 == c.ys - LCD_Y_OFFSET
      InWin(p) == /\ PixX(p) \in x1..(x1 + w - 1)
                  /\ PixY(p) \in y1..(y1 + WinH(c) - 1)
      WinIdx(p) == (PixY(p) - y1) * w + (PixX(p) - x1)
      WinXY(j) == <<x1 + (j % w), y1 + (j \div w)>>
      Writer(j) == LET r == (j - c.ptr) % size
                   IN  IF r >= N THEN -1 ELSE r + ((N - 1 - r) \div size) * size
      NewVal(p) == IF InWin(p) /\ Writer(WinIdx(p)) >= 0
                   THEN SrcVal(Writer(WinIdx(p))) ELSE Get(S.gram, p)
      covers == x1 <= 0 /\ y1 <= 0 /\ x1 + w >= LCD_WIDTH
                /\ y1 + WinH(c) >= LCD_HEIGHT /\ N >= size
      bg == IF covers THEN srcBg ELSE S.gram.bg
      idx == IF bg = srcBg THEN {(c.ptr + i) % size : i \in srcOv \cap (0..(N - 1))}
             ELSE IF N < size THEN {(c.ptr + i) % size : i \in 0..(N - 1)}
             ELSE 0..(size - 1)
      hit == {PixelIndex(WinXY(j)[1], WinXY(j)[2]) :
                j \in {k \in idx : OnPanel(WinXY(k)[1], WinXY(k)[2])}}
      cand == hit \cup DOMAIN S.gram.ov
      keep == {p \in cand : NewVal(p) # bg}
  IN  IF c.lastCmd # RAMWR \/ N <= 0 \/ size = 0 THEN S
      ELSE [S EXCEPT !.gram = [bg |-> bg, ov |-> [p \in keep |-> NewVal(p)]],
                     !.ctl.ptr = (c.ptr + N) % size]

(***************************************************************************)
(* namespace LCD                                                           *)
(***************************************************************************)
WriteCommand(S, cmd) ==
  [Emit(S, EvLcdCmd(cmd)) EXCEPT !.ctl = CtlCommand(@, cmd % 256)]

WriteDataBulk(S, data) ==
  [Emit(S, EvLcdData(data)) EXCEPT
     !.ctl = CtlParams(@, [i \in 1..Len(data) |-> data[i] % 256])]

WriteData(S, data) == WriteDataBulk(S, <<data>>)

\* hardwareReset that returns as soon as the reset line is released
HardwareResetNoSettle(S) ==
  LET t == <<EvPin("LCD_RST", 1), EvWait(1000), EvPin("LCD_RST", 0),
             EvWait(10000), EvPin("LCD_RST", 1)>>
  IN  [S EXCEPT !.trace = @ \o t, !.ctl = CtlReset]

HardwareReset(S) ==
  LET t == <<EvPin("LCD_RST", 1), EvWait(1000), EvPin("LCD_RST", 0),
             EvWait(10000), EvPin("LCD_RST", 1), EvWait(120000)>>
  IN  [S EXCEPT !.trace = @ \o t, !.ctl = CtlReset]

\* the register writes of init(), in order: <<command, parameter bytes>>
InitRegisters ==
  << <<177, <<1, 44, 45>>>>, <<178, <<1, 44, 45>>>>,
     <<179, <<1, 44, 45, 1, 44, 45>>>>, <<180, <<7>>>>,
     <<192, <<162, 2, 132>>>>, <<193, <<197>>>>, <<194, <<10, 0>>>>,
     <<195, <<138, 42>>>>, <<196, <<138, 238>>>>, <<197, <<14>>>>,
     <<224, <<15, 26, 15, 24, 47, 40, 32, 34, 31, 27, 35, 55, 0, 7, 2, 16>>>>,
     <<225, <<15, 27, 15, 23, 51, 44, 41, 46, 48, 48, 57, 63, 0, 7, 3, 16>>>>,
     <<240, <<1>>>>, <<246, <<0>>>>, <<58, <<5>>>>, <<54, <<160>>>> >>

RECURSIVE WriteRegisters(_, _, _)
WriteRegisters(S, regs, i) ==
  IF i > Len(regs) THEN S
  ELSE Then(WriteDataBulk(WriteCommand(S, regs[i][1]), regs[i][2]),
            LAMBDA T : WriteRegisters(T, regs, i + 1))

\* Math.map(value, fromLow, fromHigh, toLow, toHigh) for fromHigh - fromLow
\* = 100: the result, not rounded, as <<whole part, hundredths>>
MathMap(value, fromLow, fromHigh, toLow, toHigh) ==
  LET num == (value - fromLow) * (toHigh - toLow) + toLow * (fromHigh - fromLow)
  IN  <<num \div (fromHigh - fromLow), num % (fromHigh - fromLow)>>

\* setBacklight that stores and drives the level as passed
SetBacklightUnclamped(S, level, frac) ==
  [Emit(S, EvPin("LCD_BL", level)) EXCEPT
     !.backlightLevel = level, !.backlightFrac = frac, !.blPin = level]

\* setBacklight that also marks the display as switched on
SetBacklightShowing(S, level, frac) ==
  LET v == IF level < 0 THEN <<0, 0>>
           ELSE IF level > BL_MAX \/ (level = BL_MAX /\ frac > 0) THEN <<BL_MAX, 0>>
           ELSE <<level, frac>>
  IN  [Emit(S, EvPin("LCD_BL", v[1])) EXCEPT
         !.backlightLevel = v[1], !.backlightFrac = v[2], !.blPin = v[1],
         !.displayOn = TRUE]

\* setBacklight(level + frac / 100).  Math.clamp(0, 1023, v) keeps a v
\* inside the range as it is; analogWritePin takes an integer, so the pin
\* gets the whole part of the clamped value.
SetBacklight(S, level, frac) ==
  LET v == IF level < 0 THEN <<0, 0>>
           ELSE IF level > BL_MAX \/ (level = BL_MAX /\ frac > 0) THEN <<BL_MAX, 0>>
           ELSE <<level, frac>>
  IN  [Emit(S, EvPin("LCD_BL", v[1])) EXCEPT
         !.backlightLevel = v[1], !.backlightFrac = v[2], !.blPin = v[1]]

LcdInit(S) ==
  LET S1 == Emit(Emit(S, EvPin("LCD_CS", 1)), EvPin("LCD_DC", 1))
      S2 == HardwareReset(S1)
      S3 == WriteRegisters(S2, InitRegisters, 1)
      S4 == Emit(WriteCommand(S3, SLPOUT), EvWait(120000))
      S5 == SramInit(S4)
      S6 == [S5 EXCEPT !.lcdInitialized = TRUE]
  IN  SetBacklight(S6, S6.backlightLevel, S6.backlightFrac)

\* setWindow without the cache test: the commands are sent on every call
SetWindowAlways(S, x1, y1, x2, y2) ==
  LET S1 == WriteDataBulk(WriteCommand(S, CASET),
                          <<0, x1 + LCD_X_OFFSET, 0, x2 + LCD_X_OFFSET>>)
      S2 == WriteDataBulk(WriteCommand(S1, RASET),
                          <<0, y1 + LCD_Y_OFFSET, 0, y2 + LCD_Y_OFFSET>>)
  IN  [WriteCommand(S2, RAMWR) EXCEPT !.windowX1 = x1, !.windowY1 = y1,
                                      !.windowX2 = x2, !.windowY2 = y2]

SetWindow(S, x1, y1, x2, y2) ==
  IF x1 = S.windowX1 /\ y1 = S.windowY1 /\ x2 = S.windowX2 /\ y2 = S.windowY2
  THEN S
  ELSE LET xs == x1 + LCD_X_OFFSET
           xe == x2 + LCD_X_OFFSET
           ys == y1 + LCD_Y_OFFSET
           ye == y2 + LCD_Y_OFFSET
           S1 == WriteDataBulk(WriteCommand(S, CASET), <<0, xs, 0, xe>>)
           S2 == WriteDataBulk(WriteCommand(S1, RASET), <<0, ys, 0, ye>>)
           S3 == WriteCommand(S2, RAMWR)
       IN  [S3 EXCEPT !.windowX1 = x1, !.windowY1 = y1,
                      !.windowX2 = x2, !.windowY2 = y2]

\* displayON that sets the flag without sending the command
DisplayONSilent(S) == [S EXCEPT !.displayOn = TRUE]

DisplayON(S) == [WriteCommand(S, DISPON) EXCEPT !.displayOn = TRUE]
DisplayOFF(S) == [WriteCommand(S, DISPOFF) EXCEPT !.displayOn = FALSE]

\* invalidateWindow that leaves the cache as it is
InvalidateWindowKeep(S) == S

InvalidateWindow(S) ==
  [S EXCEPT !.windowX1 = -1, !.windowY1 = -1, !.windowX2 = -1, !.windowY2 = -1]

\* value of the frame-buffer byte at memory address a (0 outside it)
ByteAt(S, a) ==
  IF a < 0 \/ a >= FbBytes THEN 0
  ELSE IF a % 2 = 0 THEN Get(S.fb, a \div 2) \div 256 ELSE Get(S.fb, a \div 2) % 256

\* The chunk loop shared by transferFromSRAM and transferRegion: count
\* chunks of chunkBytes bytes, chunk k read from memory address Addr(k)
\* into the buffer (setMode(STREAM), one read transaction) and then pushed
\* to the display as data (one display transaction).  The chip delivers
\* byte i of a read from the address its mode gives; in Stream mode chunk
\* k is frame-buffer bytes Addr(k)..Addr(k)+chunkBytes-1, and InvPix(q) is
\* then the position in the pixel stream of frame-buffer pixel q (-1: not
\* in it).
ChunkMoves(S1, count, chunkBytes, Addr(_), InvPix(_)) ==
  LET t == [j \in 1..(2 * Max(count, 0)) |->
              IF j % 2 = 1 THEN EvSramRead(BusAddr(Addr((j - 1) \div 2)), chunkBytes)
              ELSE EvLcdPix(Addr((j - 2) \div 2), chunkBytes, <<>>)]
      \* the pins after one round (read, then push) are the pins after all
      Round(T) == Deselect(Select(Deselect(Select(T, "sram"), "sram"), "lcd"), "lcd")
      S2 == IF count > 0 THEN [Round(S1) EXCEPT !.trace = @ \o t] ELSE S1
      SrcAddr(b) == DataAddr(S2.chipMode, S2.byteExtra,
                             BusAddr(Addr(b \div chunkBytes)), b % chunkBytes)
      SrcVal(i) == ByteAt(S2, SrcAddr(2 * i)) * 256 + ByteAt(S2, SrcAddr(2 * i + 1))
      N == (Max(count, 0) * chunkBytes) \div 2
      srcOv == IF S2.chipMode = SRAM_STREAM
               THEN {InvPix(q) : q \in DOMAIN S2.fb.ov} ELSE 0..(N - 1)
  IN  CtlPixels(S2, N, SrcVal, S2.fb.bg, srcOv)

ChunkLoop(S, count, chunkBytes, Addr(_), InvPix(_)) ==
  ChunkMoves(IF count > 0 THEN SetMode(S, SRAM_STREAM) ELSE S,
             count, chunkBytes, Addr, InvPix)

TransferFromSRAM(S) ==
  LET S1 == SetWindow(Emit(S, EvCall("transferFromSRAM", <<>>)),
                      0, 0, LCD_WIDTH - 1, LCD_HEIGHT - 1)
      Addr(chunk) == chunk * CHUNK_SIZE
      InvPix(q) == q
      S2 == ChunkLoop(S1, CHUNK_COUNT, CHUNK_SIZE, Addr, InvPix)
  IN  IF ~S2.displayOn THEN DisplayON(S2) ELSE S2

\* transferRegion without its first four lines
ClampRegionNone(x0, y0, w0, h0) == <<x0, y0, w0, h0>>

\* the clamping of transferRegion: <<x, y, w, h>> after its first four lines
ClampRegion(x0, y0, w0, h0) ==
  LET w1 == IF x0 < 0 THEN w0 + x0 ELSE w0
      x == IF x0 < 0 THEN 0 ELSE x0
      h1 == IF y0 < 0 THEN h0 + y0 ELSE h0
      y == IF y0 < 0 THEN 0 ELSE y0
      w == IF x + w1 > LCD_WIDTH THEN LCD_WIDTH - x ELSE w1
      h == IF y + h1 > LCD_HEIGHT THEN LCD_HEIGHT - y ELSE h1
  IN  <<x, y, w, h>>

\* the row transfer with all rows read first and all rows pushed afterwards
TransferRowsBatched(S, x, y, w, h) ==
  LET Addr(row) == ((y + row) * LCD_WIDTH + x) * 2
      InvPix(q) == IF PixX(q) \in x..(x + w - 1) /\ PixY(q) \in y..(y + h - 1)
                   THEN (PixY(q) - y) * w + (PixX(q) - x) ELSE -1
      S1 == SetMode(SetWindow(S, x, y, x + w - 1, y + h - 1), SRAM_STREAM)
      S2 == ChunkMoves(S1, h, w * 2, Addr, InvPix)
      moves == SubSeq(S2.trace, Len(S1.trace) + 1, Len(S2.trace))
      S3 == [S2 EXCEPT !.trace = S1.trace
                                   \o SelectSeq(moves, LAMBDA e : e.op = "read")
                                   \o SelectSeq(moves, LAMBDA e : e.op = "pix")]
  IN  IF ~S3.displayOn THEN DisplayON(S3) ELSE S3

\* the row-by-row transfer of the clamped region x, y, w, h
TransferRows(S, x, y, w, h) ==
  LET Addr(row) == ((y + row) * LCD_WIDTH + x) * 2
      InvPix(q) == IF PixX(q) \in x..(x + w - 1) /\ PixY(q) \in y..(y + h - 1)
                   THEN (PixY(q) - y) * w + (PixX(q) - x) ELSE -1
      S1 == SetWindow(S, x, y, x + w - 1, y + h - 1)
      S2 == ChunkLoop(S1, h, w * 2, Addr, InvPix)
  IN  IF ~S2.displayOn THEN DisplayON(S2) ELSE S2

\* transferRegion with the size tests made on the arguments as passed
TransferRegionUnclamped(S, x0, y0, w0, h0) ==
  LET S0 == Emit(S, EvCall("transferRegion", <<x0, y0, w0, h0>>))
      c == ClampRegion(x0, y0, w0, h0)
  IN  IF c[3] <= 0 \/ c[4] <= 0 THEN S0
      ELSE IF w0 >= LCD_WIDTH - WIDE_MARGIN \/ w0 * h0 > AREA_LIMIT
      THEN TransferFromSRAM(S0)
      ELSE TransferRows(S0, c[1], c[2], c[3], c[4])

\* transferRegion without the return for an empty region
TransferRegionNoReturn(S, x0, y0, w0, h0) ==
  LET S0 == Emit(S, EvCall("transferRegion", <<x0, y0, w0, h0>>))
      c == ClampRegion(x0, y0, w0, h0)
  IN  IF c[3] >= LCD_WIDTH - WIDE_MARGIN \/ c[3] * c[4] > AREA_LIMIT
      THEN TransferFromSRAM(S0)
      ELSE TransferRows(S0, c[1], c[2], c[3], c[4])

TransferRegion(S, x0, y0, w0, h0) ==
  LET S0 == Emit(S, EvCall("transferRegion", <<x0, y0, w0, h0>>))
      c == ClampRegion(x0, y0, w0, h0)
  IN  IF c[3] <= 0 \/ c[4] <= 0 THEN S0
      ELSE IF c[3] >= LCD_WIDTH - WIDE_MARGIN \/ c[3] * c[4] > AREA_LIMIT
      THEN TransferFromSRAM(S0)
      ELSE TransferRows(S0, c[1], c[2], c[3], c[4])

FillScreen(S, color) ==
  LET S1 == SetWindow(S, 0, 0, LCD_WIDTH - 1, LCD_HEIGHT - 1)
      c == HighByte(color) * 256 + LowByte(color)
      N == LCD_WIDTH * LCD_HEIGHT
      SrcVal(i) == c
      S2 == Emit(S1, EvLcdPix(-1, 2 * N, <<HighByte(color), LowByte(color)>>))
      S3 == CtlPixels(S2, N, SrcVal, c, {})
  IN  IF ~S3.displayOn THEN DisplayON(S3) ELSE S3

(***************************************************************************)
(* namespace Graphics                                                      *)
(***************************************************************************)
\* markDirty that replaces the box instead of growing it
MarkDirtyReplace(S, x1, y1, x2, y2) ==
  [S EXCEPT !.dirtyX1 = x1, !.dirtyY1 = y1, !.dirtyX2 = x2, !.dirtyY2 = y2,
            !.isDirty = TRUE]

MarkDirty(S, x1, y1, x2, y2) ==
  IF ~S.isDirty
  THEN [S EXCEPT !.dirtyX1 = x1, !.dirtyY1 = y1, !.dirtyX2 = x2, !.dirtyY2 = y2,
                 !.isDirty = TRUE]
  ELSE [S EXCEPT !.dirtyX1 = Min(@, x1), !.dirtyY1 = Min(@, y1),
                 !.dirtyX2 = Max(@, x2), !.dirtyY2 = Max(@, y2)]

ClampX(x) == Clamp(0, LCD_WIDTH - 1, x)
ClampY(y) == Clamp(0, LCD_HEIGHT - 1, y)

Clear(S, color) ==
  MarkDirty(FillColor(S, color), 0, 0, LCD_WIDTH - 1, LCD_HEIGHT - 1)

GraphicsInit(S) == Clear(LcdInit(S), WHITE)

\* display that transfers the box and leaves the tracker active
DisplayKeepDirty(S) ==
  IF ~S.isDirty THEN S
  ELSE TransferRegion(S, ClampX(S.dirtyX1), ClampY(S.dirtyY1),
                      ClampX(S.dirtyX2) - ClampX(S.dirtyX1) + 1,
                      ClampY(S.dirtyY2) - ClampY(S.dirtyY1) + 1)

\* display that passes the dirty box to the driver as stored
DisplayUnclamped(S) ==
  IF ~S.isDirty THEN S
  ELSE [TransferRegion(S, S.dirtyX1, S.dirtyY1,
                       S.dirtyX2 - S.dirtyX1 + 1, S.dirtyY2 - S.dirtyY1 + 1)
          EXCEPT !.isDirty = FALSE]

Display(S) ==
  IF ~S.isDirty THEN S
  ELSE [TransferRegion(S, ClampX(S.dirtyX1), ClampY(S.dirtyY1),
                       ClampX(S.dirtyX2) - ClampX(S.dirtyX1) + 1,
                       ClampY(S.dirtyY2) - ClampY(S.dirtyY1) + 1)
          EXCEPT !.isDirty = FALSE]

\* displayFull that returns, as display does, when the tracker is inactive
DisplayFullIfDirty(S) ==
  IF ~S.isDirty THEN S ELSE [TransferFromSRAM(S) EXCEPT !.isDirty = FALSE]

DisplayFull(S) == [TransferFromSRAM(S) EXCEPT !.isDirty = FALSE]

\* a | b and a & b on non-negative integers, bit by bit
RECURSIVE BitOr(_, _)
BitOr(a, b) ==
  IF a = 0 THEN b
  ELSE IF b = 0 THEN a
  ELSE (IF a % 2 = 1 \/ b % 2 = 1 THEN 1 ELSE 0) + 2 * BitOr(a \div 2, b \div 2)
RECURSIVE BitAnd(_, _)
BitAnd(a, b) ==
  IF a = 0 \/ b = 0 THEN 0
  ELSE (IF a % 2 = 1 /\ b % 2 = 1 THEN 1 ELSE 0) + 2 * BitAnd(a \div 2, b \div 2)
\* v >> k and v << k for 0 <= v < 2^16, k <= 11: no bit leaves 32 bits
ShiftRight(v, k) == v \div (2 ^ k)
ShiftLeft(v, k) == v * (2 ^ k)

\* rgb with five bits for every channel, red from bit 10
Rgb555(r, g, b) ==
  BitOr(BitOr(ShiftLeft(BitAnd(ShiftRight(r, 3), 31), 10),
              ShiftLeft(BitAnd(ShiftRight(g, 3), 31), 5)),
        BitAnd(ShiftRight(b, 3), 31))

Rgb(r, g, b) ==
  LET r5 == BitAnd(ShiftRight(r, 3), 31)
      g6 == BitAnd(ShiftRight(g, 2), 63)
      b5 == BitAnd(ShiftRight(b, 3), 31)
  IN  BitOr(BitOr(ShiftLeft(r5, 11), ShiftLeft(g6, 5)), b5)

\* Graphics.setBacklight(level), level in percent
GraphicsSetBacklight(S, level) ==
  LET pwmValue == MathMap(level, 0, 100, 0, BL_MAX)
  IN  SetBacklight(S, pwmValue[1], pwmValue[2])

DrawPixel(S, x, y, color) ==
  IF x < 0 \/ x >= LCD_WIDTH \/ y < 0 \/ y >= LCD_HEIGHT THEN S
  ELSE MarkDirty(WriteColor(S, GetPixelAddr(x, y), color), x, y, x, y)

RECURSIVE PointRows(_, _, _, _, _, _)
PointRows(S, x1, x2, py, y2, color) ==
  IF py > y2 THEN S
  ELSE Then(WriteHLine(S, x1, py, x2 - x1 + 1, color),
            LAMBDA T : PointRows(T, x1, x2, py + 1, y2, color))

DrawPoint(S, x, y, color, size) ==
  LET half == size \div 2
      x1 == ClampX(x - half)
      y1 == ClampY(y - half)
      x2 == ClampX(x + half)
      y2 == ClampY(y + half)
  IN  MarkDirty(PointRows(S, x1, x2, y1, y2, color), x1, y1, x2, y2)

DrawHLine(S, x, y, length, color) ==
  LET x1 == ClampX(x)
      x2 == ClampX(x + length - 1)
  IN  IF y < 0 \/ y >= LCD_HEIGHT THEN S
      ELSE IF x1 > x2 THEN S
      ELSE MarkDirty(WriteHLine(S, x1, y, x2 - x1 + 1, color), x1, y, x2, y)

RECURSIVE VLinePixels(_, _, _, _, _)
VLinePixels(S, x, py, y2, color) ==
  IF py > y2 THEN S
  ELSE Then(WriteColor(S, GetPixelAddr(x, py), color),
            LAMBDA T : VLinePixels(T, x, py + 1, y2, color))

DrawVLine(S, x, y, length, color) ==
  LET y1 == ClampY(y)
      y2 == ClampY(y + length - 1)
  IN  IF x < 0 \/ x >= LCD_WIDTH THEN S
      ELSE IF y1 > y2 THEN S
      ELSE MarkDirty(VLinePixels(S, x, y1, y2, color), x, y1, x, y2)

FastFill(S, x, y, w, h, color) == SramFillRect(S, x, y, w, h, color)

\* enum values: PixelSize.SIZE_1, LineStyle.SOLID/DOTTED/DASHED, FillMode.FILLED
SIZE_1 == 1
SOLID == 0
DOTTED == 1
DASHED == 2
FILLED == 1

Abs(v) == IF v < 0 THEN -v ELSE v
\* the % of the source language: the remainder has the sign of the dividend
JsRem(a, b) == IF a >= 0 THEN a % b ELSE -((-a) % b)

\* the thick or dashed walk along a horizontal (horiz) or vertical line
RECURSIVE LinePoints(_, _, _, _, _, _, _, _)
LinePoints(S, horiz, fixed, p, last, color, thickness, style) ==
  IF p >= last THEN S
  ELSE LET S1 == IF style = SOLID \/ JsRem(p, 4) < 2
                 THEN IF horiz THEN DrawPoint(S, p, fixed, color, thickness)
                      ELSE DrawPoint(S, fixed, p, color, thickness)
                 ELSE S
       IN  Then(S1, LAMBDA T : LinePoints(T, horiz, fixed, p + 1, last, color,
                                          thickness, style))

Plot(S, x, y, color, thickness, style, step) ==
  IF \/ style = SOLID
     \/ (style = DOTTED /\ step % 3 = 0)
     \/ (style = DASHED /\ step % 6 < 4)
  THEN IF thickness = SIZE_1 THEN DrawPixel(S, x, y, color)
       ELSE DrawPoint(S, x, y, color, thickness)
  ELSE S

\* the while (true) loop of Bresenham's algorithm
RECURSIVE Bresenham(_, _, _, _, _, _, _, _, _, _, _, _, _, _)
Bresenham(S, x, y, x2, y2, dx, dy, sx, sy, err, step, color, thickness, style) ==
  LET S1 == Plot(S, x, y, color, thickness, style, step)
      e2 == 2 * err
      movesX == e2 > -dy
      err1 == IF movesX THEN err - dy ELSE err
      nx == IF movesX THEN x + sx ELSE x
      movesY == e2 < dx
      err2 == IF movesY THEN err1 + dx ELSE err1
      ny == IF movesY THEN y + sy ELSE y
  IN  IF x = x2 /\ y = y2 THEN S1
      ELSE Then(S1, LAMBDA T : Bresenham(T, nx, ny, x2, y2, dx, dy, sx, sy, err2,
                                         step + 1, color, thickness, style))

DrawLine(S, x1, y1, x2, y2, color, thickness, style) ==
  IF y1 = y2
  THEN LET startX == Min(x1, x2)
           length == Abs(x2 - x1) + 1
       IN  IF thickness = SIZE_1 /\ style = SOLID
           THEN DrawHLine(S, startX, y1, length, color)
           ELSE LinePoints(S, TRUE, y1, startX, startX + length, color, thickness, style)
  ELSE IF x1 = x2
  THEN LET startY == Min(y1, y2)
           length == Abs(y2 - y1) + 1
       IN  IF thickness = SIZE_1 /\ style = SOLID
           THEN DrawVLine(S, x1, startY, length, color)
           ELSE LinePoints(S, FALSE, x1, startY, startY + length, color, thickness, style)
  ELSE LET dx == Abs(x2 - x1)
           dy == Abs(y2 - y1)
           sx == IF x1 < x2 THEN 1 ELSE -1
           sy == IF y1 < y2 THEN 1 ELSE -1
       IN  MarkDirty(Bresenham(S, x1, y1, x2, y2, dx, dy, sx, sy, dx - dy, 0,
                               color, thickness, style),
                     Min(x1, x2), Min(y1, y2), Max(x1, x2), Max(y1, y2))

DrawRect(S, x, y, w, h, color, fill, thickness) ==
  LET x1 == ClampX(x)
      y1 == ClampY(y)
      x2 == ClampX(x + w - 1)
      y2 == ClampY(y + h - 1)
      top == DrawLine(S, x1, y1, x2, y1, color, thickness, SOLID)
      Bottom(T) == DrawLine(T, x1, y2, x2, y2, color, thickness, SOLID)
      Left(T) == DrawLine(T, x1, y1, x1, y2, color, thickness, SOLID)
      Right(T) == DrawLine(T, x2, y1, x2, y2, color, thickness, SOLID)
      outline == Then(Then(Then(top, Bottom), Left), Right)
  IN  MarkDirty(IF fill = FILLED
                THEN SramFillRect(S, x1, y1, x2 - x1 + 1, y2 - y1 + 1, color)
                ELSE outline,
                x1, y1, x2, y2)

\* drawHLine for each <<x, y, length>> of hs, in order
RECURSIVE DrawHLines(_, _, _)
DrawHLines(S, hs, color) ==
  IF hs = <<>> THEN S
  ELSE Then(DrawHLine(S, Head(hs)[1], Head(hs)[2], Head(hs)[3], color),
            LAMBDA T : DrawHLines(T, Tail(hs), color))

\* drawPixel for each <<x, y>> of ps, in order
RECURSIVE DrawPixels(_, _, _)
DrawPixels(S, ps, color) ==
  IF ps = <<>> THEN S
  ELSE Then(DrawPixel(S, Head(ps)[1], Head(ps)[2], color),
            LAMBDA T : DrawPixels(T, Tail(ps), color))

\* the while (x <= y) loop of the midpoint circle algorithm
RECURSIVE CircleLoop(_, _, _, _, _, _, _, _)
CircleLoop(S, cx, cy, x, y, d, color, fill) ==
  LET hs == << <<cx - x, cy + y, 2 * x + 1>>, <<cx - x, cy - y, 2 * x + 1>>,
               <<cx - y, cy + x, 2 * y + 1>>, <<cx - y, cy - x, 2 * y + 1>> >>
      ps == << <<cx + x, cy + y>>, <<cx - x, cy + y>>, <<cx + x, cy - y>>,
               <<cx - x, cy - y>>, <<cx + y, cy + x>>, <<cx - y, cy + x>>,
               <<cx + y, cy - x>>, <<cx - y, cy - x>> >>
      S1 == IF fill = FILLED THEN DrawHLines(S, hs, color) ELSE DrawPixels(S, ps, color)
  IN  IF x > y THEN S
      ELSE IF d < 0
      THEN Then(S1, LAMBDA T : CircleLoop(T, cx, cy, x + 1, y, d + 4 * x + 6, color, fill))
      ELSE Then(S1, LAMBDA T : CircleLoop(T, cx, cy, x + 1, y - 1, d + 4 * (x - y) + 10,
                                          color, fill))

DrawCircle(S, cx, cy, r, color, fill) ==
  MarkDirty(CircleLoop(S, cx, cy, 0, r, 3 - 2 * r, color, fill),
            cx - r, cy - r, cx + r, cy + r)

\* data is the sprite buffer as a sequence: data[1] is the source's data[0]
RECURSIVE SpritePixels(_, _, _, _, _, _, _)
SpritePixels(S, data, x, y, w, h, k) ==
  LET px == k % w
      py == k \div w
      idx == 2 + k * 2
      color == data[idx + 1] * 256 + data[idx + 2]
      screenX == x + px
      screenY == y + py
      S1 == IF color # MAGENTA /\ screenX >= 0 /\ screenX < LCD_WIDTH
               /\ screenY >= 0 /\ screenY < LCD_HEIGHT
            THEN WriteColor(S, GetPixelAddr(screenX, screenY), color)
            ELSE S
  IN  IF w <= 0 \/ k >= w * h THEN S
      ELSE IF idx + 1 >= Len(data) THEN S
      ELSE Then(S1, LAMBDA T : SpritePixels(T, data, x, y, w, h, k + 1))

DrawSprite(S, data, x, y) ==
  IF Len(data) < 2 THEN S
  ELSE SpritePixels(S, data, x, y, data[1], data[2], 0)

\* createSprite(w, h, color) as a sequence
CreateSprite(w, h, color) ==
  [i \in 1..(2 + w * h * 2) |->
     IF i = 1 THEN w ELSE IF i = 2 THEN h
     ELSE IF i % 2 = 1 THEN HighByte(color) ELSE LowByte(color)]

(***************************************************************************)
(* namespace LCD1IN8 (legacy interface)                                    *)
(***************************************************************************)
LCD_SetBL(S, level) == SetBacklight(S, level, 0)

LCD_Display(S) == DisplayFull(S)


(***************************************************************************)
(* The direct test (test.ts): the reference routine, which drives the pins *)
(* and the bus itself and keeps no driver state                            *)
(***************************************************************************)
lcdCmd(S, cmd) == [Emit(S, EvLcdCmd(cmd)) EXCEPT !.ctl = CtlCommand(@, cmd)]

lcdData(S, data) ==
  [Emit(S, EvLcdData(<<data>>)) EXCEPT !.ctl = CtlParams(@, <<data>>)]

\* lcdData for each byte of bytes, in order: one transaction per byte; the
\* controller takes parameter bytes one at a time as it takes them together,
\* and the pins after the first call are the pins after all
lcdDataAll(S, bytes) ==
  IF bytes = <<>> THEN S
  ELSE LET S1 == lcdData(S, bytes[1])
       IN  [S1 EXCEPT !.trace = @ \o [i \in 1..(Len(bytes) - 1) |->
                                        EvLcdData(<<bytes[i + 1]>>)],
                      !.ctl = CtlParams(@, Tail(bytes))]

sramMode(S, mode) == [Emit(S, EvWrsr(mode)) EXCEPT !.chipMode = mode]

\* the register writes of initLCD(), in order: <<command, parameter bytes>>
initLCDRegisters ==
  << <<177, <<1, 44, 45>>>>, <<178, <<1, 44, 45>>>>,
     <<179, <<1, 44, 45, 1, 44, 45>>>>, <<180, <<7>>>>,
     <<192, <<162, 2, 132>>>>, <<193, <<197>>>>, <<194, <<10, 0>>>>,
     <<195, <<138, 42>>>>, <<196, <<138, 238>>>>, <<197, <<14>>>>,
     <<224, <<15, 26, 15, 24, 47, 40, 32, 34, 31, 27, 35, 55, 0, 7, 2, 16>>>>,
     <<225, <<15, 27, 15, 23, 51, 44, 41, 46, 48, 48, 57, 63, 0, 7, 3, 16>>>>,
     <<240, <<1>>>>, <<246, <<0>>>>, <<58, <<5>>>>, <<54, <<160>>>> >>

RECURSIVE initLCDWrites(_, _)
initLCDWrites(S, i) ==
  IF i > Len(initLCDRegisters) THEN S
  ELSE Then(lcdDataAll(lcdCmd(S, initLCDRegisters[i][1]), initLCDRegisters[i][2]),
            LAMBDA T : initLCDWrites(T, i + 1))

initLCD(S) ==
  LET t == <<EvPin("LCD_RST", 1), EvWait(1000), EvPin("LCD_RST", 0),
             EvWait(10000), EvPin("LCD_RST", 1), EvWait(120000)>>
      S1 == initLCDWrites([S EXCEPT !.trace = @ \o t, !.ctl = CtlReset], 1)
      S2 == Emit(lcdCmd(S1, 17), EvWait(120000))
  IN  sramMode(S2, 0)

clearBuffer(S, color) ==
  LET highByte == (color \div 256) % 256
      lowByte == color % 256
      S1 == sramMode(S, 64)
      S2 == Emit(S1, EvSramWrite(0, 2 * 160 * 128, <<highByte, lowByte>>))
  IN  StorePixels(S2, 0, 160 * 128, highByte * 256 + lowByte)

displayBuffer(S) ==
  LET S1 == sramMode(S, 64)
      S2 == lcdDataAll(lcdCmd(S1, 42), <<0, 1, 0, 160>>)
      S3 == lcdDataAll(lcdCmd(S2, 43), <<0, 2, 0, 129>>)
      S4 == lcdCmd(S3, 44)
      Addr(chunk) == chunk * 640
      InvPix(q) == q
      S5 == ChunkMoves(S4, 64, 640, Addr, InvPix)
  IN  lcdCmd(S5, 41)

\* the main test: initLCD(); clearBuffer(color); displayBuffer()
directTest(S, color) ==
  Then(Then(initLCD(S), LAMBDA T : clearBuffer(T, color)),
       LAMBDA T : displayBuffer(T))

(***************************************************************************)
(* Operations.  Every action runs one exported function to completion and  *)
(* records it in lastOp with the bus traffic it produced in trace.         *)
(***************************************************************************)
\* the variables of the driver and the hardware take their values from S
Store(S) ==
  /\ trace' = S.trace
  /\ lcdInitialized' = S.lcdInitialized
  /\ displayOn' = S.displayOn
  /\ backlightLevel' = S.backlightLevel
  /\ backlightFrac' = S.backlightFrac
  /\ windowX1' = S.windowX1
  /\ windowY1' = S.windowY1
  /\ windowX2' = S.windowX2
  /\ windowY2' = S.windowY2
  /\ currentMode' = S.currentMode
  /\ sramInitialized' = S.sramInitialized
  /\ dirtyX1' = S.dirtyX1
  /\ dirtyY1' = S.dirtyY1
  /\ dirtyX2' = S.dirtyX2
  /\ dirtyY2' = S.dirtyY2
  /\ isDirty' = S.isDirty
  /\ chipMode' = S.chipMode
  /\ byteExtra' = S.byteExtra
  /\ fb' = S.fb
  /\ oob' = S.oob
  /\ ctl' = S.ctl
  /\ gram' = S.gram
  /\ blPin' = S.blPin
  /\ sramCs' = S.sramCs
  /\ lcdCs' = S.lcdCs
  /\ clash' = S.clash
  /\ streamReopened' = S.streamReopened

Commit(S, name, args) ==
  /\ steps' = steps + 1
  /\ lastOp' = [name |-> name, args |-> args]
  /\ prevOp' = lastOp
  /\ pre' = [Cur EXCEPT !.trace = trace]
  /\ pre2' = pre
  /\ pc' = pc
  /\ Store(S)

\* State after the modules are loaded: the initial values of the source;
\* the chips hold what power-up left in them.
Init ==
  /\ lcdInitialized = FALSE
  /\ displayOn = FALSE
  /\ backlightLevel = 1023
  /\ backlightFrac = 0
  /\ windowX1 = -1 /\ windowY1 = -1 /\ windowX2 = -1 /\ windowY2 = -1
  /\ currentMode = SRAM_BYTE
  /\ sramInitialized = FALSE
  /\ dirtyX1 = 0 /\ dirtyY1 = 0
  /\ dirtyX2 = LCD_WIDTH - 1 /\ dirtyY2 = LCD_HEIGHT - 1
  /\ isDirty = TRUE
  /\ chipMode \in Modes
  /\ byteExtra \in {"dropped", "next"}
  /\ fb = Uniform(0)
  /\ oob = {}
  /\ ctl = CtlReset
  /\ gram = Uniform(4660)
  /\ blPin = 0
  /\ sramCs = "undriven"
  /\ lcdCs = "undriven"
  /\ clash = FALSE
  /\ streamReopened = FALSE
  /\ trace = <<>>
  /\ lastOp = [name |-> "load", args |-> <<>>]
  /\ prevOp = [name |-> "load", args |-> <<>>]
  /\ steps = 0
  /\ pre = Cur
  /\ pre2 = Cur
  /\ pc = <<>>

RED == 63488
BLUE == 31

\* Graphics operations
OpGraphicsInit ==
  /\ steps < MaxOps
  /\ Commit(GraphicsInit(Cur), "Graphics.init", <<>>)
OpClear ==
  /\ steps < MaxOps
  /\ Commit(Clear(Cur, RED), "clear", <<RED>>)
OpDisplay ==
  /\ steps < MaxOps
  /\ Commit(Display(Cur), "display", <<>>)
OpDisplayFull ==
  /\ steps < MaxOps
  /\ Commit(DisplayFull(Cur), "displayFull", <<>>)
OpDrawPixel ==
  /\ steps < MaxOps
  /\ \E xy \in {<<3, 2>>, <<160, 2>>} :
       Commit(DrawPixel(Cur, xy[1], xy[2], RED), "drawPixel", <<xy[1], xy[2], RED>>)
OpDrawPoint ==
  /\ steps < MaxOps
  /\ Commit(DrawPoint(Cur, 0, 0, BLUE, 3), "drawPoint", <<0, 0, BLUE, 3>>)
OpDrawHLine ==
  /\ steps < MaxOps
  /\ Commit(DrawHLine(Cur, 150, 5, 20, BLUE), "drawHLine", <<150, 5, 20, BLUE>>)
OpDrawVLine ==
  /\ steps < MaxOps
  /\ Commit(DrawVLine(Cur, 7, 125, 9, RED), "drawVLine", <<7, 125, 9, RED>>)
OpDrawLine ==
  /\ steps < MaxOps
  /\ \E a \in {<<1, 1, 4, 3, SIZE_1, SOLID>>, <<30, 9, 33, 9, 2, DOTTED>>} :
       Commit(DrawLine(Cur, a[1], a[2], a[3], a[4], BLUE, a[5], a[6]),
              "drawLine", a \o <<BLUE>>)
OpDrawRect ==
  /\ steps < MaxOps
  /\ \E a \in {<<158, 126, 5, 5, FILLED>>, <<10, 10, 4, 3, 0>>} :
       Commit(DrawRect(Cur, a[1], a[2], a[3], a[4], RED, a[5], SIZE_1),
              "drawRect", a \o <<RED>>)
OpDrawCircle ==
  /\ steps < MaxOps
  /\ \E a \in {<<80, 60, 2, 0>>, <<1, 1, 2, FILLED>>} :
       Commit(DrawCircle(Cur, a[1], a[2], a[3], BLUE, a[4]), "drawCircle", a \o <<BLUE>>)
OpDrawSprite ==
  /\ steps < MaxOps
  /\ Commit(DrawSprite(Cur, CreateSprite(2, 1, BLUE), 20, 20), "drawSprite", <<20, 20>>)
OpFastFill ==
  /\ steps < MaxOps
  /\ Commit(FastFill(Cur, 5, 5, 2, 2, RED), "fastFill", <<5, 5, 2, 2, RED>>)

Next ==
  \/ OpGraphicsInit
  \/ OpClear
  \/ OpDisplay
  \/ OpDisplayFull
  \/ OpDrawPixel
  \/ OpDrawPoint
  \/ OpDrawHLine
  \/ OpDrawVLine
  \/ OpDrawLine
  \/ OpDrawRect
  \/ OpDrawCircle
  \/ OpDrawSprite
  \/ OpFastFill

Spec == Init /\ [][Next]_vars

\* the update cycle alone: initialise, draw into the frame buffer, update
MaxUpdateOps == 4

OpUpdateInit ==
  /\ steps < MaxUpdateOps
  /\ Commit(GraphicsInit(Cur), "Graphics.init", <<>>)
OpUpdateClear ==
  /\ steps < MaxUpdateOps
  /\ Commit(Clear(Cur, RED), "clear", <<RED>>)
OpUpdateDisplay ==
  /\ steps < MaxUpdateOps
  /\ Commit(Display(Cur), "display", <<>>)
OpUpdateDrawPixel ==
  /\ steps < MaxUpdateOps
  /\ \E xy \in {<<3, 2>>, <<160, 2>>} :
       Commit(DrawPixel(Cur, xy[1], xy[2], RED), "drawPixel", <<xy[1], xy[2], RED>>)

NextUpdate ==
  \/ OpUpdateInit
  \/ OpUpdateClear
  \/ OpUpdateDisplay
  \/ OpUpdateDrawPixel

SpecUpdate == Init /\ [][NextUpdate]_vars

\* LCD operations called directly
MaxLcdOps == 3
LcdRects == {<<0, 0, 159, 127>>, <<3, 2, 4, 2>>}

OpLcdInit ==
  /\ steps < MaxLcdOps
  /\ Commit(LcdInit(Cur), "LCD.init", <<>>)
OpSetWindow ==
  /\ steps < MaxLcdOps
  /\ \E r \in LcdRects :
       Commit(SetWindow(Cur, r[1], r[2], r[3], r[4]), "setWindow", r)
OpSetBacklight ==
  /\ steps < MaxLcdOps
  /\ Commit(SetBacklight(Cur, 2000, 0), "LCD.setBacklight", <<2000>>)
OpDisplayON ==
  /\ steps < MaxLcdOps
  /\ Commit(DisplayON(Cur), "displayON", <<>>)
OpDisplayOFF ==
  /\ steps < MaxLcdOps
  /\ Commit(DisplayOFF(Cur), "displayOFF", <<>>)
OpTransferFromSRAM ==
  /\ steps < MaxLcdOps
  /\ Commit(TransferFromSRAM(Cur), "transferFromSRAM", <<>>)
OpTransferRegion ==
  /\ steps < MaxLcdOps
  /\ Commit(TransferRegion(Cur, 3, 2, 2, 1), "transferRegion", <<3, 2, 2, 1>>)
OpFillScreen ==
  /\ steps < MaxLcdOps
  /\ Commit(FillScreen(Cur, RED), "fillScreen", <<RED>>)
OpInvalidateWindow ==
  /\ steps < MaxLcdOps
  /\ Commit(InvalidateWindow(Cur), "invalidateWindow", <<>>)

NextLCD ==
  \/ OpLcdInit
  \/ OpSetWindow
  \/ OpSetBacklight
  \/ OpDisplayON
  \/ OpDisplayOFF
  \/ OpTransferFromSRAM
  \/ OpTransferRegion
  \/ OpFillScreen
  \/ OpInvalidateWindow

SpecLCD == Init /\ [][NextLCD]_vars

\* SRAM operations called directly
MaxSramOps == 3
\* 0xF800, 0x1234 (two different bytes), 0x00FF and 0xFFFF
FillColors == {RED, 4660, 255, WHITE}
\* <<x, y, length>>: inside a row, a whole row, the last pixel, empty, and
\* one running past the end of its row
HLines == {<<10, 5, 20>>, <<0, 127, 160>>, <<159, 127, 1>>, <<10, 5, 0>>, <<158, 0, 4>>}

OpSramInit ==
  /\ steps < MaxSramOps
  /\ Commit(SramInit(Cur), "SRAM.init", <<>>)
OpSetMode ==
  /\ steps < MaxSramOps
  /\ \E m \in Modes : Commit(SetMode(Cur, m), "setMode", <<m>>)
OpWriteByte ==
  /\ steps < MaxSramOps
  /\ Commit(WriteByte(Cur, 7, 171), "writeByte", <<7, 171>>)
OpReadByte ==
  /\ steps < MaxSramOps
  /\ Commit(ReadByte(Cur, 31), "readByte", <<31>>)
OpWriteColor ==
  /\ steps < MaxSramOps
  /\ Commit(WriteColor(Cur, 30, BLUE), "writeColor", <<30, BLUE>>)
OpFillColor ==
  /\ steps < MaxSramOps
  /\ \E c \in FillColors : Commit(FillColor(Cur, c), "fillColor", <<c>>)
OpSramFillRect ==
  /\ steps < MaxSramOps
  /\ Commit(SramFillRect(Cur, 5, 5, 2, 2, RED), "SRAM.fillRect", <<5, 5, 2, 2, RED>>)
OpWriteHLine ==
  /\ steps < MaxSramOps
  /\ \E a \in HLines :
       Commit(WriteHLine(Cur, a[1], a[2], a[3], BLUE), "writeHLine", a \o <<BLUE>>)

NextSRAM ==
  \/ OpSramInit
  \/ OpSetMode
  \/ OpWriteByte
  \/ OpReadByte
  \/ OpWriteColor
  \/ OpFillColor
  \/ OpSramFillRect
  \/ OpWriteHLine

SpecSRAM == Init /\ [][NextSRAM]_vars

\* the dirty tracker: markDirty as the drawing operations call it, and the
\* update that consumes the box
MaxDirtyOps == 3
DirtyRects ==
  {<<3, 2, 3, 2>>, <<10, 20, 30, 40>>, <<0, 0, 159, 127>>, <<25, 5, 120, 30>>,
   <<-2, -1, 1, 3>>, <<150, 100, 159, 127>>}

OpMarkDirty ==
  /\ steps < MaxDirtyOps
  /\ \E r \in DirtyRects :
       Commit(MarkDirty(Cur, r[1], r[2], r[3], r[4]), "markDirty", r)
OpDirtyDisplay ==
  /\ steps < MaxDirtyOps
  /\ Commit(Display(Cur), "display", <<>>)

NextDirty ==
  \/ OpMarkDirty
  \/ OpDirtyDisplay

SpecDirty == Init /\ [][NextDirty]_vars

\* the bus as a whole: operations of the three namespaces in one program
MaxBusOps == 2
BusCalls ==
  {"LCD.init", "SRAM.init", "writeByte", "writeColor", "fillColor",
   "SRAM.fillRect", "writeHLine", "transferFromSRAM", "transferRegion",
   "fillScreen", "Graphics.init", "clear", "display", "displayFull",
   "drawPixel", "drawCircle", "drawSprite"}
Run(S, c) ==
  CASE c = "LCD.init" -> LcdInit(S)
    [] c = "SRAM.init" -> SramInit(S)
    [] c = "writeByte" -> WriteByte(S, 7, 171)
    [] c = "writeColor" -> WriteColor(S, 30, BLUE)
    [] c = "fillColor" -> FillColor(S, RED)
    [] c = "SRAM.fillRect" -> SramFillRect(S, 5, 5, 2, 2, RED)
    [] c = "writeHLine" -> WriteHLine(S, 158, 0, 4, BLUE)
    [] c = "transferFromSRAM" -> TransferFromSRAM(S)
    [] c = "transferRegion" -> TransferRegion(S, 3, 2, 2, 1)
    [] c = "fillScreen" -> FillScreen(S, RED)
    [] c = "Graphics.init" -> GraphicsInit(S)
    [] c = "clear" -> Clear(S, RED)
    [] c = "display" -> Display(S)
    [] c = "displayFull" -> DisplayFull(S)
    [] c = "drawPixel" -> DrawPixel(S, 3, 2, RED)
    [] c = "drawCircle" -> DrawCircle(S, 80, 60, 2, BLUE, 0)
    [] c = "drawSprite" -> DrawSprite(S, CreateSprite(2, 1, BLUE), 20, 20)

OpCall ==
  /\ steps < MaxBusOps
  /\ \E c \in BusCalls : Commit(Run(Cur, c), c, <<>>)

NextBus == OpCall

SpecBus == Init /\ [][NextBus]_vars

\* transferRegion over regions of every kind, after operations that set
\* up the frame buffer, the window cache and the display
MaxRegionOps == 2
\* <<x, y, w, h>>: small; the 10 x 10 example; width 140 and 139; area 5004;
\* wide but clamped to 60 columns; wide but clamped to 130
\* columns by a negative x; and six that are empty after clamping
Regions ==
  {<<3, 2, 2, 1>>, <<10, 10, 10, 10>>, <<0, 0, 140, 1>>, <<0, 0, 139, 1>>,
   <<20, 0, 139, 36>>, <<100, 0, 150, 1>>, <<-20, 0, 150, 1>>,
   <<160, 0, 5, 5>>, <<0, 128, 1, 1>>, <<0, 0, 0, 5>>,
   <<5, 5, -3, 4>>, <<-5, 0, 5, 3>>, <<200, 300, 150, 50>>}
RegionSetups == {"LCD.init", "fillColor", "fillScreen"}

OpRegionTransfer ==
  /\ steps < MaxRegionOps
  /\ \E r \in Regions :
       Commit(TransferRegion(Cur, r[1], r[2], r[3], r[4]), "transferRegion", r)
OpRegionSetup ==
  /\ steps < MaxRegionOps
  /\ \E c \in RegionSetups : Commit(Run(Cur, c), c, <<>>)

NextRegion ==
  \/ OpRegionTransfer
  \/ OpRegionSetup

SpecRegion == Init /\ [][NextRegion]_vars

\* The backlight through its three entry points
MaxBacklightOps == 2
\* PWM levels below, inside and above 0..1023
PwmLevels == {-5, 0, 512, 1023, 1024, 2000}
\* percent levels below, inside and above 0..100
PercentLevels == {-10, 0, 50, 99, 100, 101, 250}

OpBacklightInit ==
  /\ steps < MaxBacklightOps
  /\ Commit(LcdInit(Cur), "LCD.init", <<>>)
OpLcdSetBacklight ==
  /\ steps < MaxBacklightOps
  /\ \E level \in PwmLevels :
       Commit(SetBacklight(Cur, level, 0), "LCD.setBacklight", <<level>>)
OpGraphicsSetBacklight ==
  /\ steps < MaxBacklightOps
  /\ \E level \in PercentLevels :
       Commit(GraphicsSetBacklight(Cur, level), "Graphics.setBacklight", <<level>>)
OpLCD_SetBL ==
  /\ steps < MaxBacklightOps
  /\ \E level \in PwmLevels : Commit(LCD_SetBL(Cur, level), "LCD_SetBL", <<level>>)

NextBacklight ==
  \/ OpBacklightInit
  \/ OpLcdSetBacklight
  \/ OpGraphicsSetBacklight
  \/ OpLCD_SetBL

SpecBacklight == Init /\ [][NextBacklight]_vars

\* The full update, with the tracker active on any box or inactive
MaxFullOps == 3
OpFullInit ==
  /\ steps < MaxFullOps
  /\ Commit(GraphicsInit(Cur), "Graphics.init", <<>>)
OpFullMarkDirty ==
  /\ steps < MaxFullOps
  /\ \E r \in DirtyRects :
       Commit(MarkDirty(Cur, r[1], r[2], r[3], r[4]), "markDirty", r)
OpFullDisplay ==
  /\ steps < MaxFullOps
  /\ Commit(Display(Cur), "display", <<>>)
OpFullDisplayFull ==
  /\ steps < MaxFullOps
  /\ Commit(DisplayFull(Cur), "displayFull", <<>>)
OpLCD_Display ==
  /\ steps < MaxFullOps
  /\ Commit(LCD_Display(Cur), "LCD_Display", <<>>)

NextFull ==
  \/ OpFullInit
  \/ OpFullMarkDirty
  \/ OpFullDisplay
  \/ OpFullDisplayFull
  \/ OpLCD_Display

SpecFull == Init /\ [][NextFull]_vars

\* Drawing primitives with shapes on, across and beyond the screen edges
MaxClipOps == 2
\* <<x, y, length>>: across the right edge; right of the screen; left of the
\* screen; below the screen; of length 0
ClipHLines == {<<150, 5, 20>>, <<170, 5, 10>>, <<-10, 5, 5>>, <<3, 128, 4>>, <<3, 4, 0>>}
\* <<x, y, length>>: across the bottom edge; below; above; right of the screen
ClipVLines == {<<7, 125, 9>>, <<7, 130, 3>>, <<7, -9, 4>>, <<160, 3, 4>>}
\* <<x, y, size>>: at the corner; beyond the opposite corner; left of the screen
ClipPoints == {<<0, 0, 3>>, <<200, 200, 3>>, <<-5, 10, 1>>}
\* <<x, y, w, h>>: across the corner; beyond it; above and left of the screen
ClipRects == {<<158, 126, 5, 5>>, <<200, 200, 3, 3>>, <<-10, -10, 4, 4>>}
\* <<x, y, w, h>>: inside the screen; across the right edge; across the
\* bottom edge; left of the screen
ClipFills == {<<5, 5, 2, 2>>, <<158, 0, 4, 1>>, <<0, 127, 160, 2>>, <<-3, 4, 2, 1>>}

OpClipInit ==
  /\ steps < MaxClipOps
  /\ Commit(GraphicsInit(Cur), "Graphics.init", <<>>)
OpClipHLine ==
  /\ steps < MaxClipOps
  /\ \E a \in ClipHLines :
       Commit(DrawHLine(Cur, a[1], a[2], a[3], BLUE), "drawHLine", a \o <<BLUE>>)
OpClipVLine ==
  /\ steps < MaxClipOps
  /\ \E a \in ClipVLines :
       Commit(DrawVLine(Cur, a[1], a[2], a[3], BLUE), "drawVLine", a \o <<BLUE>>)
OpClipPoint ==
  /\ steps < MaxClipOps
  /\ \E a \in ClipPoints :
       Commit(DrawPoint(Cur, a[1], a[2], BLUE, a[3]), "drawPoint", <<a[1], a[2], BLUE, a[3]>>)
OpClipRect ==
  /\ steps < MaxClipOps
  /\ \E a \in ClipRects :
       Commit(DrawRect(Cur, a[1], a[2], a[3], a[4], BLUE, FILLED, SIZE_1),
              "drawRect", a \o <<FILLED, BLUE>>)
OpClipFastFill ==
  /\ steps < MaxClipOps
  /\ \E a \in ClipFills :
       Commit(FastFill(Cur, a[1], a[2], a[3], a[4], BLUE), "fastFill", a \o <<BLUE>>)

NextClip ==
  \/ OpClipInit
  \/ OpClipHLine
  \/ OpClipVLine
  \/ OpClipPoint
  \/ OpClipRect
  \/ OpClipFastFill

SpecClip == Init /\ [][NextClip]_vars

\* The start-up sequence of the driver, to be compared with the direct test
MaxEquivOps == 3
EquivColors == {0, RED, BLUE, 4660, 255, WHITE}

OpEquivInit ==
  /\ steps < MaxEquivOps
  /\ Commit(LcdInit(Cur), "LCD.init", <<>>)
OpEquivFill ==
  /\ steps < MaxEquivOps
  /\ \E c \in EquivColors : Commit(FillColor(Cur, c), "fillColor", <<c>>)
OpEquivTransfer ==
  /\ steps < MaxEquivOps
  /\ Commit(TransferFromSRAM(Cur), "transferFromSRAM", <<>>)

NextEquiv ==
  \/ OpEquivInit
  \/ OpEquivFill
  \/ OpEquivTransfer

SpecEquiv == Init /\ [][NextEquiv]_vars

\* Colour construction: rgb applied to channel values in 0..255
MaxRgbOps == 1
ChannelLevels == {0, 3, 4, 7, 8, 200, 255}

OpRgb ==
  /\ steps < MaxRgbOps
  /\ \E r \in ChannelLevels, g \in ChannelLevels, b \in ChannelLevels :
       Commit(Cur, "rgb", <<r, g, b, Rgb(r, g, b)>>)

NextRgb == OpRgb

SpecRgb == Init /\ [][NextRgb]_vars

\* The addresses of on-screen work and the three address bytes that
\* beginStreamWrite, beginStreamRead and the transfers put on the bus
MaxAddrOps == 1
\* columns and rows at the edges, in the middle and around address 32768
AddrXs == {0, 1, 63, 64, 79, 127, 158, 159}
AddrYs == {0, 1, 63, 101, 102, 103, 126, 127}
\* spiWrite(0x00), spiWrite((addr >> 8) & 0xFF), spiWrite(addr & 0xFF)
AddrBytes(addr) == <<0, BitAnd(ShiftRight(addr, 8), 255), BitAnd(addr, 255)>>

OpGetPixelAddr ==
  /\ steps < MaxAddrOps
  /\ \E x \in AddrXs, y \in AddrYs :
       Commit(Cur, "getPixelAddr",
              <<x, y, GetPixelAddr(x, y), AddrBytes(GetPixelAddr(x, y))>>)
OpChunkAddr ==
  /\ steps < MaxAddrOps
  /\ \E chunk \in 0..(CHUNK_COUNT - 1) :
       Commit(Cur, "chunkAddr",
              <<chunk, chunk * CHUNK_SIZE, AddrBytes(chunk * CHUNK_SIZE)>>)

NextAddr ==
  \/ OpGetPixelAddr
  \/ OpChunkAddr

SpecAddr == Init /\ [][NextAddr]_vars

\* the stream writers of the memory driver, the Graphics operations built
\* on them, and other users of the bus in between
MaxStreamOps == 2
StreamWriters ==
  {[name |-> "fillColor", args |-> <<BLUE>>],
   [name |-> "SRAM.fillRect", args |-> <<5, 5, 2, 3, RED>>],
   [name |-> "SRAM.fillRect", args |-> <<5, 5, 2, 0, RED>>],
   [name |-> "SRAM.fillRect", args |-> <<5, 5, 0, 2, RED>>],
   [name |-> "SRAM.fillRect", args |-> <<5, 5, -1, 2, RED>>],
   [name |-> "SRAM.fillRect", args |-> <<158, 126, 2, 2, 4660>>],
   [name |-> "writeHLine", args |-> <<10, 5, 20, BLUE>>],
   [name |-> "clear", args |-> <<RED>>],
   [name |-> "drawHLine", args |-> <<150, 7, 30, BLUE>>],
   [name |-> "drawPoint", args |-> <<20, 20, RED, 3>>],
   [name |-> "drawRect", args |-> <<158, 126, 5, 5, RED>>],
   [name |-> "fastFill", args |-> <<5, 5, 2, 2, RED>>]}
RunStream(S, c) ==
  LET a == c.args
  IN  CASE c.name = "fillColor" -> FillColor(S, a[1])
        [] c.name = "SRAM.fillRect" -> SramFillRect(S, a[1], a[2], a[3], a[4], a[5])
        [] c.name = "writeHLine" -> WriteHLine(S, a[1], a[2], a[3], a[4])
        [] c.name = "clear" -> Clear(S, a[1])
        [] c.name = "drawHLine" -> DrawHLine(S, a[1], a[2], a[3], a[4])
        [] c.name = "drawPoint" -> DrawPoint(S, a[1], a[2], a[3], a[4])
        [] c.name = "drawRect" ->
             DrawRect(S, a[1], a[2], a[3], a[4], a[5], FILLED, SIZE_1)
        [] c.name = "fastFill" -> FastFill(S, a[1], a[2], a[3], a[4], a[5])
StreamOthers ==
  {"LCD.init", "writeByte", "writeColor", "transferRegion", "display", "drawPixel"}

OpStreamWriter ==
  /\ steps < MaxStreamOps
  /\ \E c \in StreamWriters : Commit(RunStream(Cur, c), c.name, c.args)
OpStreamOther ==
  /\ steps < MaxStreamOps
  /\ \E c \in StreamOthers : Commit(Run(Cur, c), c, <<>>)

NextStream ==
  \/ OpStreamWriter
  \/ OpStreamOther

SpecStream == Init /\ [][NextStream]_vars

(***************************************************************************)
(* The transfers statement by statement.  pc is the call stack, innermost  *)
(* call first; a frame holds the function, the position in its body, the   *)
(* loop counter and the arguments.  The program may stop between any two   *)
(* steps, so every state with a non-empty stack is a state an interrupted  *)
(* transfer can leave behind; a loop is one step when it runs to its end,  *)
(* and StopInLoop is a stop after some of its passes.  While an operation  *)
(* runs, pre is the state at its call and trace the bus traffic so far.    *)
(***************************************************************************)
MaxStepOps == 2
Frame(fn, args) == [fn |-> fn, at |-> 0, i |-> 0, args |-> args]
Now == [Cur EXCEPT !.trace = trace]
Goto(S, f, at, rest) == [st |-> S, pc |-> <<[f EXCEPT !.at = at]>> \o rest]
Return(S, rest) == [st |-> S, pc |-> rest]

\* setWindow with the cache assigned before the commands are sent
SetWindowStepCacheFirst(S, f, rest) ==
  LET a == f.args
      S0 == [S EXCEPT !.windowX1 = a[1], !.windowY1 = a[2],
                      !.windowX2 = a[3], !.windowY2 = a[4]]
  IN  CASE f.at = 0 -> IF a = Window(S) THEN Return(S, rest) ELSE Goto(S0, f, 1, rest)
        [] f.at = 1 -> Goto(WriteCommand(S, CASET), f, 2, rest)
        [] f.at = 2 -> Goto(WriteDataBulk(S, <<0, a[1] + LCD_X_OFFSET,
                                               0, a[3] + LCD_X_OFFSET>>), f, 3, rest)
        [] f.at = 3 -> Goto(WriteCommand(S, RASET), f, 4, rest)
        [] f.at = 4 -> Goto(WriteDataBulk(S, <<0, a[2] + LCD_Y_OFFSET,
                                               0, a[4] + LCD_Y_OFFSET>>), f, 5, rest)
        [] f.at = 5 -> Goto(WriteCommand(S, RAMWR), f, 6, rest)
        [] f.at = 6 -> Return(S, rest)

\* setWindow: 0 the cache test, 1..5 the five bus writes, 6 the assignment
\* of the cache
SetWindowStep(S, f, rest) ==
  LET a == f.args
  IN  CASE f.at = 0 -> IF a = Window(S) THEN Return(S, rest) ELSE Goto(S, f, 1, rest)
        [] f.at = 1 -> Goto(WriteCommand(S, CASET), f, 2, rest)
        [] f.at = 2 -> Goto(WriteDataBulk(S, <<0, a[1] + LCD_X_OFFSET,
                                               0, a[3] + LCD_X_OFFSET>>), f, 3, rest)
        [] f.at = 3 -> Goto(WriteCommand(S, RASET), f, 4, rest)
        [] f.at = 4 -> Goto(WriteDataBulk(S, <<0, a[2] + LCD_Y_OFFSET,
                                               0, a[4] + LCD_Y_OFFSET>>), f, 5, rest)
        [] f.at = 5 -> Goto(WriteCommand(S, RAMWR), f, 6, rest)
        [] f.at = 6 -> Return([S EXCEPT !.windowX1 = a[1], !.windowY1 = a[2],
                                        !.windowX2 = a[3], !.windowY2 = a[4]], rest)

\* transferFromSRAM: 0 the call of setWindow, 1 the chunk loop (n passes of
\* it: all of them, or fewer when execution stops inside the loop), 2 the
\* display-on test
TransferFromSRAMStep(S, f, rest, n) ==
  LET Addr(k) == (f.i + k) * CHUNK_SIZE
      first == f.i * (CHUNK_SIZE \div 2)
      InvPix(q) == IF q \in first..(first + n * (CHUNK_SIZE \div 2) - 1)
                   THEN q - first ELSE -1
  IN  CASE f.at = 0 ->
             [st |-> Emit(S, EvCall("transferFromSRAM", <<>>)),
              pc |-> <<Frame("setWindow", FullWindow), [f EXCEPT !.at = 1]>> \o rest]
        [] f.at = 1 ->
             IF f.i < CHUNK_COUNT
             THEN [st |-> ChunkMoves(SetMode(S, SRAM_STREAM), n, CHUNK_SIZE, Addr, InvPix),
                   pc |-> <<[f EXCEPT !.i = @ + n]>> \o rest]
             ELSE Goto(S, f, 2, rest)
        [] f.at = 2 -> Return(IF ~S.displayOn THEN DisplayON(S) ELSE S, rest)

\* transferRegion: 0 clamping, the two tests and the call of setWindow (from
\* here on the frame holds the clamped rectangle), 1 the row loop (n passes
\* of it), 2 the display-on test
TransferRegionStep(S, f, rest, n) ==
  LET a == f.args
      c == ClampRegion(a[1], a[2], a[3], a[4])
      S0 == Emit(S, EvCall("transferRegion", a))
      Addr(k) == ((a[2] + f.i + k) * LCD_WIDTH + a[1]) * 2
      InvPix(q) == IF /\ PixX(q) \in a[1]..(a[1] + a[3] - 1)
                      /\ PixY(q) \in (a[2] + f.i)..(a[2] + f.i + n - 1)
                   THEN (PixY(q) - a[2] - f.i) * a[3] + (PixX(q) - a[1]) ELSE -1
  IN  CASE f.at = 0 ->
             IF c[3] <= 0 \/ c[4] <= 0 THEN Return(S0, rest)
             ELSE IF c[3] >= LCD_WIDTH - WIDE_MARGIN \/ c[3] * c[4] > AREA_LIMIT
             THEN [st |-> S0, pc |-> <<Frame("transferFromSRAM", <<>>)>> \o rest]
             ELSE [st |-> S0,
                   pc |-> <<Frame("setWindow",
                                  <<c[1], c[2], c[1] + c[3] - 1, c[2] + c[4] - 1>>),
                            [f EXCEPT !.at = 1, !.args = c]>> \o rest]
        [] f.at = 1 ->
             IF f.i < a[4]
             THEN [st |-> ChunkMoves(SetMode(S, SRAM_STREAM), n, a[3] * 2, Addr, InvPix),
                   pc |-> <<[f EXCEPT !.i = @ + n]>> \o rest]
             ELSE Goto(S, f, 2, rest)
        [] f.at = 2 -> Return(IF ~S.displayOn THEN DisplayON(S) ELSE S, rest)

\* display: 0 the test and the call of transferRegion, 1 isDirty = false
DisplayStep(S, f, rest) ==
  CASE f.at = 0 ->
         IF ~S.isDirty THEN Return(S, rest)
         ELSE [st |-> S,
               pc |-> <<Frame("transferRegion",
                              <<ClampX(S.dirtyX1), ClampY(S.dirtyY1),
                                ClampX(S.dirtyX2) - ClampX(S.dirtyX1) + 1,
                                ClampY(S.dirtyY2) - ClampY(S.dirtyY1) + 1>>),
                        [f EXCEPT !.at = 1]>> \o rest]
    [] f.at = 1 -> Return([S EXCEPT !.isDirty = FALSE], rest)

\* displayFull: 0 the call of transferFromSRAM, 1 isDirty = false
DisplayFullStep(S, f, rest) ==
  CASE f.at = 0 ->
         [st |-> S, pc |-> <<Frame("transferFromSRAM", <<>>), [f EXCEPT !.at = 1]>> \o rest]
    [] f.at = 1 -> Return([S EXCEPT !.isDirty = FALSE], rest)

\* the calls that are run statement by statement
StepCalls ==
  {[name |-> "display", args |-> <<>>], [name |-> "displayFull", args |-> <<>>],
   [name |-> "transferFromSRAM", args |-> <<>>],
   [name |-> "transferRegion", args |-> <<3, 2, 2, 3>>],
   [name |-> "setWindow", args |-> <<3, 2, 4, 4>>]}
\* the passes a loop of count passes can have made when execution stops
\* inside it
PassesBeforeStop(count) == {n \in {1, 2} : n < count}
\* the frame of a program that has stopped and makes no further step
Stopped == Frame("stopped", <<>>)

Advance(r) ==
  /\ pc' = r.pc
  /\ Store(r.st)
  /\ UNCHANGED <<lastOp, prevOp, pre, pre2, steps>>

OpStepCall ==
  /\ pc = <<>>
  /\ steps < MaxStepOps
  /\ \E c \in StepCalls :
       /\ pc' = <<Frame(c.name, c.args)>>
       /\ steps' = steps + 1
       /\ lastOp' = c
       /\ prevOp' = lastOp
       /\ pre' = Now
       /\ pre2' = pre
       /\ Store(Cur)
OpStepMarkDirty ==
  /\ pc = <<>>
  /\ steps < MaxStepOps
  /\ \E r \in {<<3, 2, 4, 4>>, <<-2, -1, 1, 3>>} :
       Commit(MarkDirty(Cur, r[1], r[2], r[3], r[4]), "markDirty", r)
StepSetWindow ==
  /\ pc # <<>> /\ Head(pc).fn = "setWindow"
  /\ Advance(SetWindowStep(Now, Head(pc), Tail(pc)))
StepTransferFromSRAM ==
  /\ pc # <<>> /\ Head(pc).fn = "transferFromSRAM"
  /\ Advance(TransferFromSRAMStep(Now, Head(pc), Tail(pc), CHUNK_COUNT))
StepTransferRegion ==
  /\ pc # <<>> /\ Head(pc).fn = "transferRegion"
  /\ Advance(TransferRegionStep(Now, Head(pc), Tail(pc), Head(pc).args[4]))
\* execution stops inside the chunk loop or the row loop, after n passes
StopInLoop ==
  /\ pc # <<>> /\ Head(pc).at = 1 /\ Head(pc).i = 0
  /\ \/ /\ Head(pc).fn = "transferFromSRAM"
        /\ \E n \in PassesBeforeStop(CHUNK_COUNT) :
             LET r == TransferFromSRAMStep(Now, Head(pc), Tail(pc), n)
             IN  Advance([r EXCEPT !.pc = <<Stopped>> \o @])
     \/ /\ Head(pc).fn = "transferRegion"
        /\ \E n \in PassesBeforeStop(Head(pc).args[4]) :
             LET r == TransferRegionStep(Now, Head(pc), Tail(pc), n)
             IN  Advance([r EXCEPT !.pc = <<Stopped>> \o @])
StepDisplay ==
  /\ pc # <<>> /\ Head(pc).fn = "display"
  /\ Advance(DisplayStep(Now, Head(pc), Tail(pc)))
StepDisplayFull ==
  /\ pc # <<>> /\ Head(pc).fn = "displayFull"
  /\ Advance(DisplayFullStep(Now, Head(pc), Tail(pc)))

NextStep ==
  \/ OpStepCall
  \/ OpStepMarkDirty
  \/ StepSetWindow
  \/ StepTransferFromSRAM
  \/ StepTransferRegion
  \/ StopInLoop
  \/ StepDisplay
  \/ StepDisplayFull

SpecStep == Init /\ [][NextStep]_vars

(***************************************************************************)
(* Graphics.drawLine, one pass of its loop at a time                       *)
(***************************************************************************)
\* endpoints lie within LineReach of each other in x and in y
LineReach == 3
PixelSizes == {SIZE_1, 2, 3}
LineStyles == {SOLID, DOTTED, DASHED}
\* first endpoints: off the screen next to the origin, and on the screen
\* next to the far corner
LineStarts == {<<-2, -1>>, <<158, 126>>}
LineCalls ==
  {[name |-> "drawLine",
    args |-> <<p[1], p[2], p[1] + ex, p[2] + ey, BLUE, t, st>>] :
     p \in LineStarts, ex \in -LineReach..LineReach, ey \in -LineReach..LineReach,
     t \in PixelSizes, st \in LineStyles}

\* the error update without the term of the other axis
LineAdvanceNoCarry(x, y, dx, dy, sx, sy, err) ==
  LET e2 == 2 * err
      movesX == e2 > -dy
      nx == IF movesX THEN x + sx ELSE x
      movesY == e2 < dx
      err2 == IF movesY THEN err + dx ELSE err
      ny == IF movesY THEN y + sy ELSE y
  IN  <<nx, ny, err2>>

\* the end of one pass of the while (true) loop: <<x, y, err>> after it
LineAdvance(x, y, dx, dy, sx, sy, err) ==
  LET e2 == 2 * err
      movesX == e2 > -dy
      err1 == IF movesX THEN err - dy ELSE err
      nx == IF movesX THEN x + sx ELSE x
      movesY == e2 < dx
      err2 == IF movesY THEN err1 + dx ELSE err1
      ny == IF movesY THEN y + sy ELSE y
  IN  <<nx, ny, err2>>

LineFrame(args) ==
  [fn |-> "drawLine", at |-> 0, i |-> 0, args |-> args,
   x |-> args[1], y |-> args[2], err |-> 0]
LineDx(a) == Abs(a[3] - a[1])
LineDy(a) == Abs(a[4] - a[2])

\* at 0: entry; at 1: top of the while (true) loop, i is step; at 2: after
\* the loop.  The position and the locals after one statement:
LineNextPc(f, rest) ==
  LET a == f.args
      dx == LineDx(a)
      dy == LineDy(a)
      sx == IF a[1] < a[3] THEN 1 ELSE -1
      sy == IF a[2] < a[4] THEN 1 ELSE -1
      n == LineAdvance(f.x, f.y, dx, dy, sx, sy, f.err)
  IN  CASE f.at = 0 ->
             IF a[2] = a[4] \/ a[1] = a[3] THEN rest
             ELSE <<[f EXCEPT !.err = dx - dy, !.at = 1]>> \o rest
        [] f.at = 1 ->
             IF f.x = a[3] /\ f.y = a[4] THEN <<[f EXCEPT !.at = 2]>> \o rest
             ELSE <<[f EXCEPT !.x = n[1], !.y = n[2], !.err = n[3],
                              !.i = f.i + 1]>> \o rest
        [] OTHER -> rest
\* what the statement does to the driver and the chips
LineEffect(S, f) ==
  LET a == f.args
  IN  CASE f.at = 0 ->
             IF a[2] = a[4] \/ a[1] = a[3]
             THEN DrawLine(S, a[1], a[2], a[3], a[4], a[5], a[6], a[7])
             ELSE S
        [] f.at = 1 -> Plot(S, f.x, f.y, a[5], a[6], a[7], f.i)
        [] OTHER -> MarkDirty(S, Min(a[1], a[3]), Min(a[2], a[4]),
                              Max(a[1], a[3]), Max(a[2], a[4]))
DrawLineStep(S, f, rest) == [st |-> LineEffect(S, f), pc |-> LineNextPc(f, rest)]

\* drawLine is called as the first operation after loading
OpLineCall ==
  /\ pc = <<>>
  /\ lastOp.name = "load"
  /\ \E c \in LineCalls :
       /\ pc' = <<LineFrame(c.args)>>
       /\ steps' = steps + 1
       /\ lastOp' = c
       /\ prevOp' = lastOp
       /\ pre' = Now
       /\ pre2' = pre
       /\ Store(Cur)
StepDrawLine ==
  /\ pc # <<>> /\ Head(pc).fn = "drawLine"
  /\ Advance(DrawLineStep(Now, Head(pc), Tail(pc)))

NextLine ==
  \/ OpLineCall
  \/ StepDrawLine

\* the move of the position that StepDrawLine makes
LineResume ==
  /\ pc # <<>> /\ Head(pc).fn = "drawLine"
  /\ pc' = LineNextPc(Head(pc), Tail(pc))
\* a call that has started keeps running: it is not suspended for ever
SpecLine == Init /\ [][NextLine]_vars /\ WF_pc(LineResume)

(***************************************************************************)
(* Properties                                                              *)
(***************************************************************************)
\* T without its trace: the driver and hardware state alone
StateOf(T) == [T EXCEPT !.trace = <<>>]
\* pixels at which the memories a and b differ
Changed(a, b) ==
  {p \in (IF a.bg = b.bg THEN DOMAIN a.ov \cup DOMAIN b.ov ELSE 0..(NumPixels - 1)) :
     Get(a, p) # Get(b, p)}
Calls(t, name) == CountOp(t, "call", name)
InRect(x, y, r) == x \in r[1]..r[3] /\ y \in r[2]..r[4]
\* the bus transactions of one window-set command group for rectangle r
WindowGroup(r) ==
  <<EvLcdCmd(CASET), EvLcdData(<<0, r[1] + LCD_X_OFFSET, 0, r[3] + LCD_X_OFFSET>>),
    EvLcdCmd(RASET), EvLcdData(<<0, r[2] + LCD_Y_OFFSET, 0, r[4] + LCD_Y_OFFSET>>),
    EvLcdCmd(RAMWR)>>
DrawOps ==
  {"clear", "drawPixel", "drawPoint", "drawHLine", "drawVLine", "drawLine",
   "drawRect", "drawCircle", "drawSprite", "fastFill"}

\* C1: once Graphics.init() has run, when a drawing operation is
\* immediately followed by display(), every pixel the drawing operation
\* changed in the frame buffer holds the same value in the display memory
\* when display() returns.
C1_DrawnPixelsReachDisplay ==
  (lastOp.name = "display" /\ prevOp.name \in DrawOps /\ pre2.lcdInitialized)
    => \A p \in Changed(pre2.fb, pre.fb) : Get(gram, p) = Get(fb, p)

\* C2: after setWindow(x1, y1, x2, y2) the controller's column and row
\* registers hold the rectangle plus the (1, 2) offset, the last command it
\* received is memory-write and its write pointer is at the first pixel.
C2_WindowProgrammed ==
  lastOp.name = "setWindow"
    => /\ CtlWindow(ctl) = lastOp.args
       /\ ctl.lastCmd = RAMWR
       /\ ctl.ptr = 0

\* C3: every frame-buffer pixel modified by a public drawing operation is
\* waiting inside the dirty box of an active tracker when the operation
\* returns.
C3_ModifiedPixelsTracked ==
  lastOp.name \in DrawOps
    => \A p \in Changed(pre.fb, fb) :
         isDirty /\ InRect(PixX(p), PixY(p), DirtyBox(Cur))

\* C4: display() called before any drawing operation or markDirty calls
\* transferRegion zero times and performs no bus transaction.
C4_FirstDisplayIdle ==
  (lastOp.name = "display" /\ steps = 1)
    => Calls(trace, "transferRegion") = 0 /\ BusCount(trace) = 0

\* C5: when Graphics.init() returns the tracker is inactive, and a
\* drawPixel(x, y) that follows it directly leaves the dirty box (x, y, x, y).
C5_InitResetsTracker ==
  /\ lastOp.name = "Graphics.init" => ~isDirty
  /\ (lastOp.name = "drawPixel" /\ prevOp.name = "Graphics.init"
        /\ InRect(lastOp.args[1], lastOp.args[2], FullWindow))
       => DirtyBox(Cur) = <<lastOp.args[1], lastOp.args[2], lastOp.args[1], lastOp.args[2]>>

C7_DirtyBoxUnion ==
  (lastOp.name = "markDirty" /\ prevOp.name = "markDirty" /\ ~pre2.isDirty)
    => LET A == prevOp.args
           B == lastOp.args
       IN  /\ isDirty
           /\ DirtyBox(Cur) = <<Min(A[1], B[1]), Min(A[2], B[2]),
                                Max(A[3], B[3]), Max(A[4], B[4])>>
           /\ \A r \in {A, B} : \A x \in r[1]..r[3] : \A y \in r[2]..r[4] :
                InRect(x, y, DirtyBox(Cur))
C7_TwoMarksFromInactive ==
  /\ lastOp.name = "markDirty" /\ prevOp.name = "markDirty" /\ ~pre2.isDirty
  /\ prevOp.args = <<10, 20, 30, 40>>
  /\ lastOp.args = <<25, 5, 120, 30>>
  /\ DirtyBox(Cur) = <<10, 5, 120, 40>>

C9_SetModeOnceAtStartup ==
  (steps = 2 /\ lastOp.name = "setMode" /\ prevOp = lastOp)
    => CountOp(pre.trace \o trace, "sram", "wrsr") = 1

\* C10: when LCD.init() returns the cached window matches no window and
\* displayOn is false, as in the controller after its hardware reset.
C10_InitRebuildsState ==
  lastOp.name = "LCD.init"
    => /\ Window(Cur) = NoWindow
       /\ ~displayOn
       /\ displayOn = ctl.on

\* C11: the setWindow that follows invalidateWindow() sends the group
\* column-address-set, row-address-set, memory-write for its rectangle,
\* also when that rectangle was the cached window before the invalidation.
C11_InvalidateForcesCommands ==
  (lastOp.name = "setWindow" /\ prevOp.name = "invalidateWindow")
    => /\ Window(pre) = NoWindow
       /\ trace = WindowGroup(lastOp.args)
       /\ Window(Cur) = lastOp.args
       /\ CtlWindow(ctl) = lastOp.args /\ ctl.lastCmd = RAMWR /\ ctl.ptr = 0
C11_SameWindowAfterInvalidate ==
  /\ lastOp.name = "setWindow" /\ prevOp.name = "invalidateWindow"
  /\ Window(pre2) = lastOp.args
  /\ CountCmd(trace, CASET) = 1 /\ CountCmd(trace, RASET) = 1
  /\ CountCmd(trace, RAMWR) = 1

\* C12: no chip is selected, and no byte moves to or from a chip, while
\* the other chip-select is low; between operations neither chip-select is
\* low.
C12_ChipSelectsExclusive ==
  /\ ~clash
  /\ sramCs # "low"
  /\ lcdCs # "low"
C12_TransferAfterFill ==
  /\ lastOp.name = "transferFromSRAM" /\ prevOp.name = "fillColor"
  /\ CountOp(trace, "sram", "read") = CHUNK_COUNT
  /\ CountOp(trace, "lcd", "pix") = CHUNK_COUNT
  /\ sramCs = "high" /\ lcdCs = "high"

\* C13: after fillColor(c) every pixel of the frame buffer holds the high
\* byte of c followed by its low byte, and the fill is one write
\* transaction of 40960 bytes at address 0 (after the mode write, when the
\* cached mode was not Stream).
C13_FillColorFillsAll ==
  lastOp.name = "fillColor"
    => LET c == lastOp.args[1]
       IN  /\ fb.bg = HighByte(c) * 256 + LowByte(c)
           /\ DOMAIN fb.ov = {}
           /\ oob = pre.oob
           /\ trace[Len(trace)]
                = EvSramWrite(BusAddr(0), FbBytes, <<HighByte(c), LowByte(c)>>)
           /\ CountOp(trace, "sram", "write") = 1
           /\ BusCount(trace) = (IF pre.currentMode = SRAM_STREAM THEN 1 ELSE 2)
C13_FilledWithTwoBytes ==
  /\ lastOp = [name |-> "fillColor", args |-> <<4660>>]
  /\ Get(fb, 0) = 4660 /\ Get(fb, NumPixels - 1) = 4660
  /\ Get(pre.fb, NumPixels - 1) # 4660
  /\ pre.chipMode = SRAM_PAGE

\* C14: when transferFromSRAM() returns, the display memory equals the
\* frame buffer at every pixel of the screen and the display is on.
C14_TransferCopiesFrameBuffer ==
  lastOp.name = "transferFromSRAM"
    => /\ Changed(gram, fb) = {}
       /\ displayOn /\ ctl.on

\* C15: writeHLine(x, y, length, c) with 0 <= x, x + length <= 160 and
\* 0 <= y < 128 sets the pixels of row y in columns x..x+length-1 to c and
\* changes no other byte of the memory.
C15_WriteHLineFrame ==
  (/\ lastOp.name = "writeHLine"
   /\ 0 <= lastOp.args[1] /\ lastOp.args[3] >= 0
   /\ lastOp.args[1] + lastOp.args[3] <= LCD_WIDTH
   /\ lastOp.args[2] \in 0..(LCD_HEIGHT - 1))
    => LET x == lastOp.args[1]
           y == lastOp.args[2]
           seg == {PixelIndex(i, y) : i \in x..(x + lastOp.args[3] - 1)}
       IN  /\ \A p \in seg : Get(fb, p) = lastOp.args[4]
           /\ Changed(pre.fb, fb) \subseteq seg
           /\ oob = pre.oob
C15_LineOverFill ==
  /\ lastOp = [name |-> "writeHLine", args |-> <<10, 5, 20, BLUE>>]
  /\ prevOp = [name |-> "fillColor", args |-> <<RED>>]
  /\ Get(fb, PixelIndex(10, 5)) = BLUE /\ Get(fb, PixelIndex(29, 5)) = BLUE
  /\ Get(fb, PixelIndex(9, 5)) = RED /\ Get(fb, PixelIndex(30, 5)) = RED
  /\ Changed(pre.fb, fb) = {PixelIndex(i, 5) : i \in 10..29}

\* the last operation was a transferRegion whose clamped rectangle is not empty
RegionOnScreen ==
  /\ lastOp.name = "transferRegion"
  /\ ClampRegion(lastOp.args[1], lastOp.args[2], lastOp.args[3], lastOp.args[4])[3] > 0
  /\ ClampRegion(lastOp.args[1], lastOp.args[2], lastOp.args[3], lastOp.args[4])[4] > 0
\* the last operation called transferFromSRAM: 64 reads of 640 bytes, each
\* pushed to the display, through the full-screen window
Delegated ==
  /\ Calls(trace, "transferFromSRAM") = 1
  /\ CountOp(trace, "sram", "read") = CHUNK_COUNT
  /\ CountOp(trace, "lcd", "pix") = CHUNK_COUNT
  /\ \A i \in 1..Len(trace) :
       trace[i].op \in {"read", "pix"} => trace[i].n = CHUNK_SIZE
  /\ Window(Cur) = FullWindow
\* the last operation moved the rectangle c = <<x, y, w, h>> row by row: one
\* read of 2 * w bytes per row, from the address of the row's first pixel,
\* each pushed to the display, through the window of exactly that rectangle
RowByRow(c) ==
  /\ Calls(trace, "transferFromSRAM") = 0
  /\ CountOp(trace, "sram", "read") = c[4]
  /\ CountOp(trace, "lcd", "pix") = c[4]
  /\ \A i \in 1..Len(trace) :
       trace[i].op \in {"read", "pix"} => trace[i].n = 2 * c[3]
  /\ {trace[i].a : i \in {j \in 1..Len(trace) : trace[j].op = "pix"}}
       = {((c[2] + row) * LCD_WIDTH + c[1]) * 2 : row \in 0..(c[4] - 1)}
  /\ Window(Cur) = <<c[1], c[2], c[1] + c[3] - 1, c[2] + c[4] - 1>>

\* C16 as stated: transferRegion(x, y, w, h) with a non-empty on-screen area
\* delegates to transferFromSRAM when the w it was called with is >= 140 or
\* the w * h it was called with is > 5000, and otherwise transfers row by row.
C16_ThresholdsOnArguments ==
  RegionOnScreen
    => IF lastOp.args[3] >= LCD_WIDTH - WIDE_MARGIN
          \/ lastOp.args[3] * lastOp.args[4] > AREA_LIMIT
       THEN Delegated
       ELSE RowByRow(ClampRegion(lastOp.args[1], lastOp.args[2],
                                 lastOp.args[3], lastOp.args[4]))
\* C16, amended: transferRegion(x, y, w, h) with a non-empty on-screen area
\* delegates to transferFromSRAM exactly when the width of the clamped
\* rectangle is >= 140 or its area is > 5000; otherwise the clamped rectangle
\* is transferred row by row.
C16_ThresholdsOnClampedRegion ==
  RegionOnScreen
    => LET c == ClampRegion(lastOp.args[1], lastOp.args[2],
                            lastOp.args[3], lastOp.args[4])
       IN  IF c[3] >= LCD_WIDTH - WIDE_MARGIN \/ c[3] * c[4] > AREA_LIMIT
           THEN Delegated
           ELSE RowByRow(c)
\* a call with w = 150 whose clamped width is 60 went row by row, after a
\* call of width 139 and area 5004 that was delegated
C16_WideCallClampedNarrow ==
  /\ lastOp = [name |-> "transferRegion", args |-> <<100, 0, 150, 1>>]
  /\ prevOp = [name |-> "transferRegion", args |-> <<20, 0, 139, 36>>]
  /\ RowByRow(<<100, 0, 60, 1>>)
  /\ Calls(pre.trace, "transferFromSRAM") = 1

\* C18: transferRegion whose rectangle is empty after clamping performs no
\* bus transaction and leaves the window cache, displayOn, the memory mode
\* and every other piece of driver and hardware state unchanged.
C18_EmptyRegionNoAction ==
  (lastOp.name = "transferRegion" /\ ~RegionOnScreen)
    => /\ BusCount(trace) = 0
       /\ StateOf(Cur) = StateOf(pre)
\* an empty region (negative width) after LCD.init: nothing on the bus, the
\* window left by init still cached
C18_NegativeWidthAfterInit ==
  /\ lastOp = [name |-> "transferRegion", args |-> <<5, 5, -3, 4>>]
  /\ prevOp.name = "LCD.init"
  /\ BusCount(trace) = 0
  /\ Window(Cur) = Window(pre)
  /\ currentMode = pre.currentMode /\ displayOn = pre.displayOn

\* the requested shape of the last drawing operation, as the box
\* <<x1, y1, x2, y2>> of the coordinates it was called with
RequestedBox ==
  LET a == lastOp.args
  IN  CASE lastOp.name = "drawHLine" -> <<a[1], a[2], a[1] + a[3] - 1, a[2]>>
        [] lastOp.name = "drawVLine" -> <<a[1], a[2], a[1], a[2] + a[3] - 1>>
        [] lastOp.name = "drawPoint" ->
             <<a[1] - (a[4] \div 2), a[2] - (a[4] \div 2),
               a[1] + (a[4] \div 2), a[2] + (a[4] \div 2)>>
        [] lastOp.name = "drawRect" -> <<a[1], a[2], a[1] + a[3] - 1, a[2] + a[4] - 1>>
        [] lastOp.name = "fastFill" -> <<a[1], a[2], a[1] + a[3] - 1, a[2] + a[4] - 1>>
\* the pixels of the requested shape that are on the screen
RequestedOnScreen ==
  {PixelIndex(i, j) :
     i \in Max(RequestedBox[1], 0)..Min(RequestedBox[3], LCD_WIDTH - 1),
     j \in Max(RequestedBox[2], 0)..Min(RequestedBox[4], LCD_HEIGHT - 1)}

\* C17: drawHLine, drawVLine, drawPoint and filled drawRect change only
\* frame-buffer pixels inside the requested shape intersected with the
\* screen; a shape entirely outside the screen changes no frame-buffer byte.
C17_OnlyInsideRequestedShape ==
  (\/ lastOp.name \in {"drawHLine", "drawVLine", "drawPoint"}
   \/ lastOp.name = "drawRect" /\ lastOp.args[5] = FILLED)
    => /\ Changed(pre.fb, fb) \subseteq RequestedOnScreen
       /\ oob = pre.oob
       /\ RequestedOnScreen = {} => fb = pre.fb

\* C19: after LCD.setBacklight(level), Graphics.setBacklight(level) or
\* LCD1IN8.LCD_SetBL(level) with any integer level, the stored backlight
\* level and the value driven on the backlight pin are within 0..1023; a PWM
\* level below 0 becomes 0 and one above 1023 becomes 1023.
C19_BacklightInRange ==
  /\ 0 <= backlightLevel /\ backlightLevel <= BL_MAX
  /\ backlightFrac \in 0..99
  /\ backlightLevel = BL_MAX => backlightFrac = 0
  /\ blPin \in 0..BL_MAX
  /\ lastOp.name \in {"LCD.setBacklight", "LCD_SetBL"}
       => /\ backlightLevel = Clamp(0, BL_MAX, lastOp.args[1])
          /\ backlightFrac = 0
          /\ blPin = backlightLevel
  /\ lastOp.name = "Graphics.setBacklight"
       => /\ lastOp.args[1] <= 0 => backlightLevel = 0 /\ backlightFrac = 0
          /\ lastOp.args[1] >= 100 => backlightLevel = BL_MAX
          /\ blPin = backlightLevel
\* 250 percent after a PWM level of -5: the level went to 0, then to 1023
C19_AboveRangeAfterBelowRange ==
  /\ lastOp = [name |-> "Graphics.setBacklight", args |-> <<250>>]
  /\ prevOp = [name |-> "LCD_SetBL", args |-> <<-5>>]
  /\ pre.backlightLevel = 0 /\ pre.blPin = 0
  /\ backlightLevel = BL_MAX /\ blPin = BL_MAX

\* C20: Graphics.displayFull() performs a full-screen transfer and leaves
\* the tracker inactive whatever the tracker was before, active on any box
\* or inactive; LCD1IN8.LCD_Display() does the same.
C20_DisplayFullUnconditional ==
  lastOp.name \in {"displayFull", "LCD_Display"}
    => /\ Delegated
       /\ ~isDirty
       /\ DirtyBox(Cur) = DirtyBox(pre)
\* LCD_Display with the tracker inactive after a display(): the screen is
\* transferred all the same
C20_FullTransferWhenInactive ==
  /\ lastOp.name = "LCD_Display"
  /\ prevOp.name = "display"
  /\ ~pre.isDirty
  /\ Delegated
  /\ ~isDirty

\* positions in the trace of the events equal to e
Positions(e) == {i \in 1..Len(trace) : trace[i] = e}
\* positions of the bytes sent to the display
LcdPositions == {i \in 1..Len(trace) : trace[i].dev = "lcd"}
\* positions of the memory driver's pin writes and transactions
SramPositions ==
  {i \in 1..Len(trace) : trace[i].dev = "sram" \/ trace[i].op = "SRAM_CS"}

\* C21: LCD.init() runs the hardware reset (pulse, release, post-reset
\* wait) before any byte is sent to the display, then the register writes
\* with sleep-out as the last command, then the settle delay, then
\* SRAM.init(), then applies the configured backlight level.
C21_InitOrder ==
  lastOp.name = "LCD.init"
    => \E low \in Positions(EvPin("LCD_RST", 0)) :
         LET rel == low + 2
             slp == rel + 2 * Len(InitRegisters) + 2
         IN
         /\ Positions(EvPin("LCD_RST", 0)) = {low}
         /\ trace[low + 1] = EvWait(10000)
         /\ trace[rel] = EvPin("LCD_RST", 1)
         /\ trace[rel + 1] = EvWait(120000)
         /\ \A i \in LcdPositions : i > rel + 1
         /\ \A k \in 1..Len(InitRegisters) :
              /\ trace[rel + 2 * k] = EvLcdCmd(InitRegisters[k][1])
              /\ trace[rel + 2 * k + 1] = EvLcdData(InitRegisters[k][2])
         /\ trace[slp] = EvLcdCmd(SLPOUT)
         /\ \A i \in LcdPositions : i <= slp
         /\ trace[slp + 1] = EvWait(120000)
         /\ trace[slp + 2] = EvPin("SRAM_CS", 1)
         /\ \A i \in SramPositions : i > slp + 1 /\ i < Len(trace)
         /\ trace[Len(trace)]
              = EvPin("LCD_BL", Clamp(0, BL_MAX, pre.backlightLevel))
         /\ Positions(trace[Len(trace)]) = {Len(trace)}
\* init after a transfer left the memory in Stream mode: the mode write of
\* SRAM.init() is in the trace, between the settle delay and the backlight
C21_InitAfterTransfer ==
  /\ lastOp.name = "LCD.init"
  /\ prevOp.name = "transferFromSRAM"
  /\ CountOp(trace, "sram", "wrsr") = 1
  /\ trace[Len(trace) - 1] = EvWrsr(SRAM_BYTE)
  /\ trace[Len(trace)] = EvPin("LCD_BL", BL_MAX)

\* the concatenation of the sequences in ss
RECURSIVE Flatten(_)
Flatten(ss) == IF ss = <<>> THEN <<>> ELSE Head(ss) \o Flatten(Tail(ss))
\* the bytes a trace sends to the display, in order, as one entry per
\* command byte or run of pixel bytes: <<"cmd", v, 1, ds>> is command byte
\* v (selector low) followed by the data bytes ds (selector high);
\* <<"pix", a, n, ds>> is the n data bytes read from memory address a,
\* followed by the data bytes ds.  How the data bytes were grouped into
\* chip-select frames does not show.
DisplayBytes(t) ==
  LET L == SelectSeq(t, LAMBDA e : e.dev = "lcd")
      heads == SelectSeq([i \in 1..Len(L) |-> i], LAMBDA i : L[i].op # "data")
      After(i, j) == Flatten([m \in 1..(j - i - 1) |-> L[i + m].d])
      End(k) == IF k < Len(heads) THEN heads[k + 1] ELSE Len(L) + 1
  IN  [k \in 1..Len(heads) |->
         <<L[heads[k]].op, L[heads[k]].a, L[heads[k]].n, After(heads[k], End(k))>>]
\* position in the trace of the first byte sent to the display, and
\* whether it is a command byte
StartsWithCommand(t) ==
  LET L == SelectSeq(t, LAMBDA e : e.dev = "lcd")
  IN  L # <<>> /\ L[1].op = "cmd"
\* the hardware at power-up, the memory chip in mode m
PowerUp(m) ==
  [Cur EXCEPT !.chipMode = m, !.fb = Uniform(0), !.oob = {}, !.ctl = CtlReset,
              !.gram = Uniform(4660), !.trace = <<>>]
\* the three operations run so far are LCD.init, fillColor, transferFromSRAM
DriverStartUp ==
  /\ steps = 3
  /\ pre2.lcdInitialized
  /\ prevOp.name = "fillColor"
  /\ lastOp.name = "transferFromSRAM"

\* C22: from power-up, LCD.init(); SRAM.fillColor(c); LCD.transferFromSRAM()
\* sends the display the same command and data bytes, in the same order
\* and with the same selector level, as initLCD(); clearBuffer(c);
\* displayBuffer() of the direct test, and leaves the same frame buffer
\* (and the same display memory and controller registers).
C22_DriverMatchesReference ==
  DriverStartUp
    => \A m \in Modes :
         LET R == directTest(PowerUp(m), prevOp.args[1])
         IN  /\ DisplayBytes(pre2.trace \o pre.trace \o trace) = DisplayBytes(R.trace)
             /\ StartsWithCommand(pre2.trace) /\ StartsWithCommand(R.trace)
             /\ fb = R.fb /\ oob = R.oob
             /\ gram = R.gram
             /\ ctl = R.ctl
\* the sequence with colour 0xF800: window, memory-write, 64 pushes and
\* display-on were sent and both memories hold the colour
C22_RedScreen ==
  /\ DriverStartUp
  /\ prevOp.args = <<RED>>
  /\ CountOp(trace, "lcd", "pix") = CHUNK_COUNT
  /\ trace[Len(trace)] = EvLcdCmd(DISPON)
  /\ fb = Uniform(RED) /\ gram = Uniform(RED)

\* C23: for r, g, b in 0..255, rgb(r, g, b) is a 16-bit value equal to
\* floor(r/8) * 2048 + floor(g/4) * 32 + floor(b/8); rgb(255, 0, 0) = 0xF800
\* and rgb(0, 0, 255) = 0x001F.
C23_RgbPacks565 ==
  /\ lastOp.name = "rgb"
       => /\ lastOp.args[4] \in 0..65535
          /\ lastOp.args[4] = (lastOp.args[1] \div 8) * 2048
                              + (lastOp.args[2] \div 4) * 32 + (lastOp.args[3] \div 8)
  /\ lastOp.name = "rgb" /\ lastOp.args[1] = 255 /\ lastOp.args[2] = 0
       /\ lastOp.args[3] = 0 => lastOp.args[4] = 63488
  /\ lastOp.name = "rgb" /\ lastOp.args[1] = 0 /\ lastOp.args[2] = 0
       /\ lastOp.args[3] = 255 => lastOp.args[4] = 31
\* rgb(200, 7, 8) was computed: 25 * 2048 + 1 * 32 + 1
C23_MixedColour ==
  lastOp = [name |-> "rgb", args |-> <<200, 7, 8, 51233>>]

\* C24: after SRAM.writeColor(addr, color) for a pixel address addr the
\* frame buffer holds the high byte of color at addr and the low byte at
\* addr + 1, and every other frame-buffer byte is unchanged.
C24_WriteColorStoresBothBytes ==
  lastOp.name = "writeColor"
    => /\ ByteAt(Cur, lastOp.args[1]) = HighByte(lastOp.args[2])
       /\ ByteAt(Cur, lastOp.args[1] + 1) = LowByte(lastOp.args[2])
       /\ Changed(pre.fb, fb) \subseteq {lastOp.args[1] \div 2}
       /\ oob = pre.oob

\* the one data transaction of the last byte-mode operation
ByteModeData ==
  CASE lastOp.name = "writeByte" ->
         EvSramWrite(BusAddr(lastOp.args[1]), 1, <<lastOp.args[2] % 256>>)
    [] lastOp.name = "readByte" -> EvSramRead(BusAddr(lastOp.args[1]), 1)
    [] lastOp.name = "writeColor" ->
         EvSramWrite(BusAddr(lastOp.args[1]), 2,
                     <<HighByte(lastOp.args[2]), LowByte(lastOp.args[2])>>)

\* C25: writeColor, readByte and writeByte force Byte mode first: when the
\* cached mode is not Byte, a mode-register write to Byte is its own
\* transaction before the data transaction; the cached mode is Byte
\* afterwards; the data transfer is one transaction.
C25_ByteModeForcedFirst ==
  lastOp.name \in {"writeColor", "readByte", "writeByte"}
    => /\ currentMode = SRAM_BYTE
       /\ trace = IF pre.currentMode # SRAM_BYTE
                  THEN <<EvWrsr(SRAM_BYTE), ByteModeData>>
                  ELSE <<ByteModeData>>
       /\ pre.currentMode # SRAM_BYTE => chipMode = SRAM_BYTE
\* readByte after a fill left the cached mode at Stream: the mode write
\* comes first, then the one-byte read
C25_ReadAfterFill ==
  /\ lastOp.name = "readByte"
  /\ prevOp.name = "fillColor"
  /\ pre.currentMode = SRAM_STREAM
  /\ trace = <<EvWrsr(SRAM_BYTE), EvSramRead(31, 1)>>
  /\ currentMode = SRAM_BYTE

\* C26: with the tracker active, display() calls transferRegion exactly
\* once, with x = clampX(x1), y = clampY(y1), w = clampX(x2) - clampX(x1) + 1
\* and h = clampY(y2) - clampY(y1) + 1 of the stored box; every on-screen
\* pixel of the box lies inside that rectangle; the tracker is inactive
\* afterwards and the stored box is untouched.
C26_DisplayTransfersClampedBox ==
  (lastOp.name = "display" /\ pre.isDirty)
    => LET x == ClampX(pre.dirtyX1)
           y == ClampY(pre.dirtyY1)
           w == ClampX(pre.dirtyX2) - ClampX(pre.dirtyX1) + 1
           h == ClampY(pre.dirtyY2) - ClampY(pre.dirtyY1) + 1
       IN  /\ Calls(trace, "transferRegion") = 1
           /\ trace[1] = EvCall("transferRegion", <<x, y, w, h>>)
           /\ \A px \in pre.dirtyX1..pre.dirtyX2 :
                px \in 0..(LCD_WIDTH - 1) => px \in x..(x + w - 1)
           /\ \A py \in pre.dirtyY1..pre.dirtyY2 :
                py \in 0..(LCD_HEIGHT - 1) => py \in y..(y + h - 1)
           /\ ~isDirty
           /\ DirtyBox(Cur) = DirtyBox(pre)
\* a box that reaches past the top-left corner is transferred as its
\* on-screen part
C26_BoxPastCorner ==
  /\ lastOp.name = "display" /\ pre.isDirty
  /\ DirtyBox(pre) = <<-2, -1, 1, 3>>
  /\ trace[1] = EvCall("transferRegion", <<0, 0, 2, 4>>)
  /\ ~isDirty

\* C27: transferRegion on its row-by-row path sets the window to exactly the
\* clamped rectangle, moves exactly h chunks of 2 * w bytes, row r read from
\* address ((y + r) * 160 + x) * 2, and when it returns the display memory
\* equals the frame buffer at every pixel of the rectangle and is unchanged
\* at every pixel outside it.
C27_RowsCopyRectangle ==
  (RegionOnScreen /\ ~Delegated)
    => LET c == ClampRegion(lastOp.args[1], lastOp.args[2],
                            lastOp.args[3], lastOp.args[4])
           rect == <<c[1], c[2], c[1] + c[3] - 1, c[2] + c[4] - 1>>
           inside == {PixelIndex(px, py) : px \in rect[1]..rect[3],
                                           py \in rect[2]..rect[4]}
       IN  /\ RowByRow(c)
           /\ \A p \in inside : Get(gram, p) = Get(fb, p)
           /\ Changed(pre.gram, gram) \subseteq inside

\* C28: in transferFromSRAM and transferRegion every memory read of a chunk
\* is a closed transaction directly followed by the display write of the
\* same chunk, every display write directly follows its read, so the write
\* of chunk k is closed before the read of chunk k + 1 starts; the chunks
\* reach the display in increasing address order; the two chip-selects are
\* never asserted together and both are deasserted when the call returns.
C28_ReadThenWritePerChunk ==
  lastOp.name \in {"transferFromSRAM", "transferRegion"}
    => /\ \A i \in 1..Len(trace) :
            (trace[i].dev = "sram" /\ trace[i].op = "read")
              => /\ i < Len(trace)
                 /\ trace[i + 1] = EvLcdPix(trace[i].a, trace[i].n, <<>>)
       /\ \A i \in 1..Len(trace) :
            (trace[i].dev = "lcd" /\ trace[i].op = "pix")
              => /\ i > 1
                 /\ trace[i - 1] = EvSramRead(trace[i].a, trace[i].n)
                 /\ \A j \in 1..(i - 1) :
                      (trace[j].dev = "lcd" /\ trace[j].op = "pix")
                        => trace[j].a < trace[i].a
       /\ BusCount(trace) > 0 => sramCs = "high" /\ lcdCs = "high"
       /\ clash = pre.clash
\* the ten rows of the 10 x 10 region, each read and then pushed
C28_TenRowsInTurn ==
  /\ lastOp = [name |-> "transferRegion", args |-> <<10, 10, 10, 10>>]
  /\ CountOp(trace, "sram", "read") = 10
  /\ CountOp(trace, "lcd", "pix") = 10
  /\ \E i \in 1..(Len(trace) - 3) :
       /\ trace[i] = EvSramRead(3220, 20)
       /\ trace[i + 1] = EvLcdPix(3220, 20, <<>>)
       /\ trace[i + 2] = EvSramRead(3540, 20)
       /\ trace[i + 3] = EvLcdPix(3540, 20, <<>>)
  /\ ~clash

\* the call c run to completion on state S
Whole(S, c) ==
  CASE c.name = "display" -> Display(S)
    [] c.name = "displayFull" -> DisplayFull(S)
    [] c.name = "transferFromSRAM" -> TransferFromSRAM(S)
    [] c.name = "transferRegion" ->
         TransferRegion(S, c.args[1], c.args[2], c.args[3], c.args[4])
    [] c.name = "setWindow" -> SetWindow(S, c.args[1], c.args[2], c.args[3], c.args[4])
    [] OTHER -> S
\* a call run statement by statement ends in the state, and with the bus
\* traffic, of the call run as one operation
StepsAgree ==
  (pc = <<>> /\ lastOp \in StepCalls)
    => LET W == Whole(StateOf(pre), lastOp)
       IN  /\ trace = W.trace
           /\ [Cur EXCEPT !.gram = W.gram] = StateOf(W)
           /\ Changed(gram, W.gram) = {}
\* a call of setWindow has not returned yet
InSetWindow == \E k \in 1..Len(pc) : pc[k].fn = "setWindow"
\* the window commands for rectangle r were all sent during this operation
WindowIssued(r) ==
  \E i \in 1..(Len(trace) - 4) : SubSeq(trace, i, i + 4) = WindowGroup(r)

\* C29: in every state in which execution can stop inside an operation,
\* the cached window is the window of the last setWindow that returned: it
\* is still the cached window of the call time while setWindow is running,
\* column-set, row-set and memory-write sent or not, and once setWindow has
\* returned it is the requested window, with the three commands sent unless
\* the call was skipped; and inside display() and displayFull(), up to and
\* including the return of the transfer, the dirty flag and the dirty box
\* are those of the call time, so a display() that stops there leaves the
\* tracker active.
C29_InterruptedTransferConsistent ==
  pc # <<>>
    => /\ InSetWindow => Window(Cur) = Window(pre)
       /\ ~InSetWindow
            => /\ Window(Cur) # Window(pre) => WindowIssued(Window(Cur))
               /\ \A k \in 1..Len(pc) :
                    /\ (pc[k].fn = "transferFromSRAM" /\ pc[k].at >= 1)
                         => Window(Cur) = FullWindow
                    /\ (pc[k].fn = "transferRegion" /\ pc[k].at >= 1)
                         => Window(Cur) = <<pc[k].args[1], pc[k].args[2],
                                            pc[k].args[1] + pc[k].args[3] - 1,
                                            pc[k].args[2] + pc[k].args[4] - 1>>
       /\ pc[Len(pc)].fn \in {"display", "displayFull"}
            => /\ isDirty = pre.isDirty
               /\ DirtyBox(Cur) = DirtyBox(pre)
       /\ (pc[Len(pc)].fn = "display" /\ Len(pc) > 1) => isDirty
\* display() stopped inside setWindow after column-set and row-set, before
\* memory-write: the controller's window has moved, the cache has not, and
\* the tracker is still active on the full screen
C29_StoppedBeforeMemoryWrite ==
  /\ lastOp.name = "display"
  /\ Len(pc) = 3
  /\ pc[1].fn = "setWindow" /\ pc[1].at = 5
  /\ pc[3].fn = "display"
  /\ CountCmd(trace, CASET) = 1 /\ CountCmd(trace, RASET) = 1
  /\ CountCmd(trace, RAMWR) = 0
  /\ ctl # pre.ctl
  /\ Window(Cur) = <<-1, -1, -1, -1>>
  /\ isDirty /\ DirtyBox(Cur) = FullWindow

\* the names of the stream writers and of the Graphics operations built on them
StreamWriterNames == {c.name : c \in StreamWriters}

\* C30: fillColor, fillRect, writeHLine and the Graphics operations built
\* on them never open a stream while the memory's previous transaction is
\* still open; every stream is closed before another transaction of the
\* memory driver or of the display starts, so no byte moves to the display
\* while the memory is selected; and between operations the memory
\* chip-select is not asserted: it is high once a stream has been written.
C30_StreamsClosedInTurn ==
  /\ ~streamReopened
  /\ ~clash
  /\ sramCs # "low"
  /\ (lastOp.name \in StreamWriterNames /\ CountOp(trace, "sram", "write") > 0)
       => sramCs = "high"
\* a fillRect of three rows after a fill of the whole memory: three more
\* streams, each closed before the next is opened
C30_ThreeRowsAfterFill ==
  /\ lastOp = [name |-> "SRAM.fillRect", args |-> <<5, 5, 2, 3, RED>>]
  /\ prevOp.name = "fillColor"
  /\ trace = <<EvSramWrite(1610, 4, <<248, 0>>), EvSramWrite(1930, 4, <<248, 0>>),
               EvSramWrite(2250, 4, <<248, 0>>)>>
  /\ sramCs = "high"
  /\ ~streamReopened

\* the stream writes of the last operation, in order
StreamWrites == SelectSeq(trace, LAMBDA e : e.dev = "sram" /\ e.op = "write")

\* C31: fillRect(x, y, w, h, c) with the rectangle inside the screen makes
\* exactly h stream writes (after the mode write, when the cached mode was
\* not Stream), write r at address ((y + r) * 160 + x) * 2 with the 2 * w
\* bytes of w pixels; afterwards every pixel of the rectangle holds c and
\* no other byte of the memory has changed.  With w <= 0 or h <= 0 no byte
\* of the memory changes.
C31_FillRectRowByRow ==
  lastOp.name = "SRAM.fillRect"
    => LET x == lastOp.args[1]
           y == lastOp.args[2]
           w == lastOp.args[3]
           h == lastOp.args[4]
           c == lastOp.args[5]
           rect == {PixelIndex(px, py) : px \in x..(x + w - 1), py \in y..(y + h - 1)}
       IN  /\ (w > 0 /\ h > 0 /\ x >= 0 /\ y >= 0
                 /\ x + w <= LCD_WIDTH /\ y + h <= LCD_HEIGHT)
                => /\ Len(StreamWrites) = h
                   /\ \A r \in 0..(h - 1) :
                        StreamWrites[r + 1] =
                          EvSramWrite(((y + r) * LCD_WIDTH + x) * 2, 2 * w,
                                      <<HighByte(c), LowByte(c)>>)
                   /\ trace = (IF pre.currentMode # SRAM_STREAM
                               THEN <<EvWrsr(SRAM_STREAM)>> ELSE <<>>) \o StreamWrites
                   /\ \A p \in rect : Get(fb, p) = HighByte(c) * 256 + LowByte(c)
                   /\ Changed(pre.fb, fb) \subseteq rect
                   /\ oob = pre.oob
           /\ (w <= 0 \/ h <= 0) => fb = pre.fb /\ oob = pre.oob
\* three rows of two pixels written over a blue memory
C31_RectOverFill ==
  /\ lastOp = [name |-> "SRAM.fillRect", args |-> <<5, 5, 2, 3, RED>>]
  /\ prevOp = [name |-> "fillColor", args |-> <<BLUE>>]
  /\ Len(StreamWrites) = 3
  /\ Changed(pre.fb, fb) = {PixelIndex(px, py) : px \in 5..6, py \in 5..7}
  /\ Get(fb, PixelIndex(7, 5)) = BLUE /\ Get(fb, PixelIndex(5, 8)) = BLUE

\* C32: LCD.setBacklight changes the stored backlight level and the
\* backlight output and nothing else: it makes no bus transaction, and the
\* frame buffer, the display memory and registers, the cached and the
\* actual memory mode, the window cache, displayOn, the initialised flags,
\* the dirty tracker and both chip-selects are as before the call.
C32_BacklightTouchesNothingElse ==
  lastOp.name = "LCD.setBacklight"
    => /\ [Cur EXCEPT !.backlightLevel = pre.backlightLevel,
                      !.backlightFrac = pre.backlightFrac,
                      !.blPin = pre.blPin] = StateOf(pre)
       /\ trace = <<EvPin("LCD_BL", blPin)>>
       /\ BusCount(trace) = 0
\* the backlight raised after a transfer that switched the display on and
\* cached the full-screen window
C32_BacklightAfterTransfer ==
  /\ lastOp.name = "LCD.setBacklight"
  /\ prevOp.name = "transferFromSRAM"
  /\ pre.blPin = 0 /\ blPin = BL_MAX
  /\ displayOn /\ Window(Cur) = FullWindow
  /\ currentMode = SRAM_STREAM
  /\ sramCs = "high" /\ lcdCs = "high"

\* C33: once SRAM.init() has run (LCD.init() runs it), the cached mode
\* equals the mode register of the memory chip, whatever mode the chip was
\* in before, and this stays so after every later operation.
C33_CachedModeIsChipMode ==
  sramInitialized => currentMode = chipMode

\* the mode of the memory chip when transaction i of the last operation
\* started: the mode of the last mode write before it, or the mode the chip
\* had when the operation was called
ModeAt(i) ==
  LET ws == {j \in 1..(i - 1) : trace[j].dev = "sram" /\ trace[j].op = "wrsr"}
  IN  IF ws = {} THEN pre.chipMode
      ELSE trace[CHOOSE j \in ws : \A k \in ws : k <= j].a
\* the read and write transactions of the last operation that move more
\* than one data byte after their address
MultiByte ==
  {i \in 1..Len(trace) : /\ trace[i].dev = "sram"
                         /\ trace[i].op \in {"read", "write"}
                         /\ trace[i].n > 1}

\* C34: every transaction with the memory chip that moves more than one
\* data byte after one address (the two bytes of writeColor, the stream
\* fills, the chunk reads of the transfers) runs while the chip is in
\* Stream mode.
C34_MultiByteInStream ==
  \A i \in MultiByte : ModeAt(i) = SRAM_STREAM

\* the bytes of one frame-buffer row
ROW_BYTES == LCD_WIDTH * 2

\* C35: whatever integers a Graphics drawing operation is called with,
\* every write transaction of it starts and ends inside the 40960 bytes of
\* the frame buffer and inside one row, so no byte is stored outside the
\* frame buffer and no write runs on into the next row; fastFill, which
\* passes its arguments on unchanged, changes pixels of the requested rows
\* only.
C35_WritesStayInRows ==
  lastOp.name \in {"drawHLine", "drawVLine", "drawPoint", "drawRect", "fastFill"}
    => /\ \A i \in 1..Len(trace) :
            (trace[i].dev = "sram" /\ trace[i].op = "write" /\ trace[i].n > 0)
              => /\ trace[i].a + trace[i].n <= FbBytes
                 /\ trace[i].a \div ROW_BYTES
                      = (trace[i].a + trace[i].n - 1) \div ROW_BYTES
       /\ oob = pre.oob
       /\ lastOp.name = "fastFill"
            => \A p \in Changed(pre.fb, fb) :
                 PixY(p) \in RequestedBox[2]..RequestedBox[4]

\* the address that three address bytes stand for on the bus
FromBytes(b) == b[1] * 65536 + b[2] * 256 + b[3]

\* C36: the address of every on-screen pixel, (y * 160 + x) * 2, and the
\* start address of every chunk, k * 640, is below 65536 (and inside the
\* frame buffer), so the bytes 0x00, (a >> 8) & 0xFF, a & 0xFF put on the
\* bus stand for a itself.
C36_AddressFitsTwoBytes ==
  /\ lastOp.name = "getPixelAddr"
       => LET a == lastOp.args[3]
          IN  /\ a = (lastOp.args[2] * 160 + lastOp.args[1]) * 2
              /\ 0 <= a /\ a < 65536 /\ a < FbBytes
              /\ FromBytes(lastOp.args[4]) = a
              /\ BusAddr(a) = a
  /\ lastOp.name = "chunkAddr"
       => LET a == lastOp.args[2]
          IN  /\ a = lastOp.args[1] * 640
              /\ 0 <= a /\ a < 65536 /\ a < FbBytes
              /\ FromBytes(lastOp.args[3]) = a
              /\ BusAddr(a) = a
\* the last pixel of the screen: address 40958 = 0x9FFE
C36_LastPixel ==
  /\ lastOp.name = "getPixelAddr"
  /\ lastOp.args = <<159, 127, 40958, <<0, 159, 254>>>>

\* the number of pixel-data bytes in transactions lo..hi of the last
\* operation
RECURSIVE PixBytes(_, _)
PixBytes(lo, hi) ==
  IF lo > hi THEN 0
  ELSE IF lo = hi
    THEN IF trace[lo].dev = "lcd" /\ trace[lo].op = "pix" THEN trace[lo].n ELSE 0
    ELSE LET mid == (lo + hi) \div 2
         IN  PixBytes(lo, mid) + PixBytes(mid + 1, hi)

\* C37: when transferFromSRAM, transferRegion or fillScreen has streamed
\* pixel data, the window it passed to setWindow has
\* 0 <= x1 <= x2 <= 159 and 0 <= y1 <= y2 <= 127, each coordinate plus its
\* offset fits one byte, and the pixel-data bytes of the operation number
\* exactly 2 * (x2 - x1 + 1) * (y2 - y1 + 1); when the window commands were
\* sent in the same operation, the controller holds that window and its
\* write pointer is back at the start of it.
C37_WindowMatchesPixelCount ==
  (/\ lastOp.name \in {"transferFromSRAM", "transferRegion", "fillScreen"}
   /\ CountOp(trace, "lcd", "pix") > 0)
    => LET win == Window(Cur)
       IN  /\ 0 <= win[1] /\ win[1] <= win[3] /\ win[3] <= LCD_WIDTH - 1
           /\ 0 <= win[2] /\ win[2] <= win[4] /\ win[4] <= LCD_HEIGHT - 1
           /\ win[3] + LCD_X_OFFSET <= 255 /\ win[4] + LCD_Y_OFFSET <= 255
           /\ PixBytes(1, Len(trace))
                = 2 * (win[3] - win[1] + 1) * (win[4] - win[2] + 1)
           /\ WindowIssued(win) => CtlWindow(ctl) = win /\ ctl.ptr = 0
\* a region reaching past the left edge, transferred as its 130 on-screen
\* columns of one row
C37_ClampedRow ==
  /\ lastOp = [name |-> "transferRegion", args |-> <<-20, 0, 150, 1>>]
  /\ Window(Cur) = <<0, 0, 129, 0>>
  /\ PixBytes(1, Len(trace)) = 260
  /\ WindowIssued(<<0, 0, 129, 0>>)
  /\ ctl.ptr = 0

\* drawLine is running
InDrawLine == pc # <<>> /\ Head(pc).fn = "drawLine"
\* inside drawLine, the pass counter stays within the longer side of the
\* box of the endpoints, the pen stays on its way to (x2, y2), and the loop
\* is left only at (x2, y2)
LineBounded ==
  InDrawLine
    => LET f == Head(pc)
           a == f.args
           longer == Max(LineDx(a), LineDy(a))
       IN  /\ f.i <= longer
           /\ Max(Abs(f.x - a[1]), Abs(f.y - a[2])) = f.i
           /\ Abs(f.x - a[1]) <= LineDx(a) /\ Abs(f.y - a[2]) <= LineDy(a)
           /\ f.at = 2 => f.x = a[3] /\ f.y = a[4] /\ f.i = longer
\* a drawLine that has returned left the state, and the bus traffic, of the
\* call run as one operation
LineAgrees ==
  (pc = <<>> /\ lastOp.name = "drawLine")
    => LET a == lastOp.args
           W == DrawLine(StateOf(pre), a[1], a[2], a[3], a[4], a[5], a[6], a[7])
       IN  /\ trace = W.trace
           /\ Cur = StateOf(W)

\* C38: Graphics.drawLine returns for all integer endpoints, on the screen or
\* off it, every thickness and every line style: its loop reaches (x2, y2)
\* after at most max(|x2 - x1|, |y2 - y1|) passes, and every call that has
\* started returns.
C38_DrawLineTerminates ==
  /\ [](LineBounded /\ LineAgrees)
  /\ InDrawLine ~> (pc = <<>>)
\* a thick dashed line from off the screen onto it, at (x2, y2) after three
\* passes
C38_SteepLineDone ==
  /\ InDrawLine
  /\ Head(pc).args = <<-2, -1, 0, 2, BLUE, 3, DASHED>>
  /\ Head(pc).at = 2
  /\ Head(pc).i = 3
  /\ Head(pc).x = 0 /\ Head(pc).y = 2
====
